---- MODULE Spec2Model ----
(***************************************************************************)
(* Model of the stock analyzer's market-data acquisition layer and of its  *)
(* indicator -> signal -> recommendation pipeline.                         *)
(*                                                                         *)
(*   SpecFetch     core/batch_stock_analyzer.py: BatchStockAnalyzer's      *)
(*                 batched fetch with retries, session resets and the      *)
(*                 per-symbol fallback.                                    *)
(*   SpecRec       backend/app/modules/recommendation_engine.py: target    *)
(*                 price and stop-loss of a recommendation.                *)
(*   SpecUniverse  backend/app/engine/modular_recommender.py and           *)
(*                 backend/app/modules/data_loader.py: analyze_universe.   *)
(***************************************************************************)
EXTENDS Integers, Sequences, FiniteSets, TLC

(***************************************************************************)
(* Bounds of the model.                                                    *)
(***************************************************************************)
\* longest list of input symbols handed to the constructor
MaxSymbols == 2
\* largest batch_size handed to the constructor
MaxBatchSize == 2

(***************************************************************************)
(* Program constants of BatchStockAnalyzer.                                *)
(***************************************************************************)
max_retries == 3
max_session_resets == 3
MinBars == 14
\* the sleeps, in tenths of a second; of a random delay, its lower end
base_delay == 10
jitter == 1
batch_delay == 10
fallback_delay == 3

RequiredColumns == {"Close", "High", "Low", "Volume"}
OHLCV == {"Open", "High", "Low", "Close", "Volume"}

\* the documented periods of the constructor
Periods == {"1mo", "3mo", "6mo", "1y"}

\* length of a period in months
Months(p) ==
    CASE p = "1mo" -> 1
      [] p = "3mo" -> 3
      [] p = "6mo" -> 6
      [] p = "1y" -> 12

(***************************************************************************)
(* Symbols are strings, modelled as sequences of characters so that        *)
(* upper() and strip() are computed.                                       *)
(***************************************************************************)
RawInputs == {<<" ", "a">>, <<"b">>, <<" ">>}

Upper(c) ==
    CASE c = "a" -> "A"
      [] c = "b" -> "B"
      [] OTHER -> c

UpperStr(s) == [k \in 1..Len(s) |-> Upper(s[k])]

RECURSIVE LStrip(_)
LStrip(s) == IF s # <<>> /\ Head(s) = " " THEN LStrip(Tail(s)) ELSE s

RECURSIVE RStrip(_)
RStrip(s) ==
    IF s # <<>> /\ s[Len(s)] = " " THEN RStrip(SubSeq(s, 1, Len(s) - 1)) ELSE s

Strip(s) == RStrip(LStrip(s))

RECURSIVE MapNormalise(_)
MapNormalise(raw) ==
    IF raw = <<>> THEN <<>>
    ELSE <<Strip(UpperStr(Head(raw)))>> \o MapNormalise(Tail(raw))

\* __init__: [s.upper().strip() for s in symbols if s.strip()]
NormaliseSymbols(raw) ==
    MapNormalise(SelectSeq(raw, LAMBDA s : Strip(s) # <<>>))

\* __init__: period if period != "1y" else "6mo"
NormalisePeriod(p) == IF p # "1y" THEN p ELSE "6mo"

(***************************************************************************)
(* A price series as far as the fetcher looks at it: its number of bars    *)
(* and its columns.  bad tells whether one of its bars is inconsistent     *)
(* (high < low); no code of the fetcher reads it.                          *)
(***************************************************************************)
NoData == [bars |-> 0, cols |-> {}, bad |-> "none"]

SeriesChoices ==
    {[bars |-> 0, cols |-> OHLCV, bad |-> "none"],
     [bars |-> MinBars - 1, cols |-> OHLCV, bad |-> "none"],
     [bars |-> MinBars, cols |-> OHLCV \ {"Volume"}, bad |-> "none"],
     [bars |-> MinBars, cols |-> OHLCV, bad |-> "none"],
     [bars |-> MinBars, cols |-> OHLCV, bad |-> "high_lt_low"]}

\* DataFrame.empty
Empty(d) == d.bars = 0 \/ d.cols = {}

\* what one symbol's part of a multi-symbol download looks like
SymbolResponses ==
    [shape : {"columns", "level0"}, data : SeriesChoices]
        \cup {[shape |-> "missing", data |-> NoData],
              [shape |-> "raises", data |-> NoData]}

\* outcome of one request of the fallback
FallbackOutcomes ==
    {[raises |-> TRUE, data |-> NoData]} \cup [raises : {FALSE}, data : SeriesChoices]

\* no download request has been issued yet
NoOutcome == [kind |-> "none", reset |-> "none"]

EmptyMap == [x \in {} |-> TRUE]

Merge(f, g) ==
    [x \in DOMAIN f \cup DOMAIN g |-> IF x \in DOMAIN g THEN g[x] ELSE f[x]]

Range(s) == {s[k] : k \in 1..Len(s)}

RECURSIVE SeqsUpTo(_, _)
SeqsUpTo(S, n) ==
    IF n = 0 THEN {<<>>}
    ELSE LET shorter == SeqsUpTo(S, n - 1)
         IN  shorter \cup {Append(q, x) : q \in {r \in shorter : Len(r) = n - 1}, x \in S}

VARIABLES
    input,                  \* the symbols handed to the constructor
    symbols,                \* self.symbols
    period,                 \* self.period
    batch_size,             \* self.batch_size
    data_cache,             \* self.data_cache: symbol -> series
    ticker_cache,           \* self.ticker_cache, its key set
    session_reset_attempts, \* self.session_reset_attempts
    pc,                     \* "start", "batch", "fallback", "done"
    uncached,               \* uncached_symbols of fetch_batch_data
    i,                      \* start of the current batch in uncached (1-based)
    results,                \* results of fetch_batch_data
    retry_count,            \* retry_count of _fetch_single_batch
    delay,                  \* the last time.sleep of the call (tenths of a second)
    fb_idx,                 \* fallback: position of the current symbol
    fb_method,              \* fallback: the method tried next
    fb_results,             \* fallback: its results
    batch_symbols,          \* the batch the records below are about
    batch_results,          \* what _fetch_single_batch returned for it
    requests,               \* the number of download requests issued for it
    outcome,                \* how the latest of these requests ended
    fb_log                  \* per position of it, the fallback requests made

fetchVars ==
    <<input, symbols, period, batch_size, data_cache, ticker_cache,
      session_reset_attempts, pc, uncached, i, results, retry_count,
      delay, fb_idx, fb_method, fb_results, batch_symbols, batch_results,
      requests, outcome, fb_log>>

VARIABLES
    final_score,            \* Final_Score_Normalized of the latest row, in thousandths
    current_price,          \* Close of the latest row, in cents
    recommendation,         \* the label
    target_price,           \* in cents
    stop_loss,              \* in cents
    rec_pc                  \* "input", "done"

recVars ==
    <<final_score, current_price, recommendation, target_price, stop_loss, rec_pc>>

VARIABLES
    tickers,                \* the tickers handed to analyze_universe
    u_batch_size,           \* batch_size of fetch_batch
    u_start,                \* start of the current batch in tickers (1-based)
    u_pending,              \* the fetches of the current batch still running
    u_results,              \* results of fetch_batch, in order of completion
    u_failed,               \* the tickers whose fetch came back empty
    u_recs,                 \* what analyze_universe returns
    u_pc                    \* "start", "fetching", "fetched", "done"

uniVars ==
    <<tickers, u_batch_size, u_start, u_pending, u_results, u_failed, u_recs, u_pc>>

VARIABLES
    now,                    \* the clock, in units of 1 / DayUnits of a day
    s3,                     \* the object under "{ticker}/data.json", or NoObject
    l_pc,                   \* per thread: where it is in fetch_single_ticker
    l_df,                   \* per thread: the frame it downloaded
    l_ret                   \* what the call that returned last returned

loaderVars == <<now, s3, l_pc, l_df, l_ret>>

VARIABLES
    p_count,                \* fetch_batch: len(tickers)
    p_batch_size,           \* fetch_batch: batch_size
    p_max_workers,          \* fetch_batch: max_workers
    p_i,                    \* fetch_batch: i, the start of the batch (1-based)
    p_queued,               \* positions submitted to the executor, not started
    p_running,              \* positions whose fetch_single_ticker is running
    p_finished,             \* positions whose fetch has completed
    p_results,              \* positions in results
    p_sleeps,               \* the inter-batch delays slept so far
    p_pc                    \* "submit", "pool", "sleep", "done"

poolVars ==
    <<p_count, p_batch_size, p_max_workers, p_i, p_queued, p_running,
      p_finished, p_results, p_sleeps, p_pc>>

VARIABLES
    Trend_Signal,           \* of the latest row, in tenths
    Momentum_Signal,        \* of the latest row, in tenths
    Volatility_Signal,      \* of the latest row, in tenths
    Volume_Signal_Combined, \* of the latest row, in tenths
    Final_Score,            \* of the latest row, in hundredths
    Final_Score_Normalized, \* of the latest row, in hundredths
    sig_pc                  \* the step of generate_signals that comes next

signalVars ==
    <<Trend_Signal, Momentum_Signal, Volatility_Signal, Volume_Signal_Combined,
      Final_Score, Final_Score_Normalized, sig_pc>>

VARIABLES
    r_series,               \* the cached series, as far as the recommendation
                            \* depends on it
    r_utcnow,               \* datetime.utcnow()
    r_out                   \* the recommendations returned so far, in order

rerunVars == <<r_series, r_utcnow, r_out>>

VARIABLES
    a_cached,               \* the symbol is in data_cache
    a_len,                  \* len(data) of the cached series
    a_columns_missing,      \* a required column is not in data.columns
    a_nan,                  \* the library calls whose series are all NaN
    a_raise,                \* the library call that raises, or "none"
    a_pc,
    a_out                   \* what analyze_symbol returned

analyzeVars ==
    <<a_cached, a_len, a_columns_missing, a_nan, a_raise, a_pc, a_out>>

VARIABLES
    f_in,                   \* the latest row of the frame given to
                            \* generate_signals: what each indicator column holds
    f_pc,
    f_out                   \* the signals and scores of the latest row

frameVars == <<f_in, f_pc, f_out>>

VARIABLES
    b_len,                  \* len(df) of the series that the loader returns
    b_close,                \* Close of its latest row, in cents
    b_ta,                   \* TA_AVAILABLE: the import of the ta library worked
    b_pc,
    b_out                   \* what analyze_single_ticker returned

barsVars == <<b_len, b_close, b_ta, b_pc, b_out>>

VARIABLES
    c_score,                \* the final score of the latest row, in thousandths
    c_rows,                 \* len(df)
    c_std,                  \* the std of the last 10 final scores, in thousandths
    c_pc,
    c_out                   \* the confidence level returned

confidenceVars == <<c_score, c_rows, c_std, c_pc, c_out>>

VARIABLES
    v_len,                  \* len(data)
    v_range_trend,          \* slope of the last 10 values of range_20, in 1/10000
    v_close_to_high,        \* avg_close / avg_high, in thousandths
    v_volume_ratio,         \* recent_volume.mean() / earlier_volume.mean(),
                            \* in thousandths
    v_pc,
    v_out                   \* the result of the detector

vcpVars == <<v_len, v_range_trend, v_close_to_high, v_volume_ratio, v_pc, v_out>>

VARIABLES
    bo_in,                  \* the quantities of the series that the detector
                            \* compares
    bo_pc,
    bo_out                  \* the result of the detector

breakoutVars == <<bo_in, bo_pc, bo_out>>

VARIABLES
    x_rows,                 \* len(recent_data)
    x_prev,                 \* the row before the current one: how SMA_10 stands
                            \* to SMA_20 and SMA_20 to SMA_40
    x_i,                    \* the rows scanned so far
    x_crossovers,           \* the list crossovers
    x_volume_confirmed,     \* the list volume_confirmed
    x_pc,
    x_out                   \* the result of the detector

crossVars ==
    <<x_rows, x_prev, x_i, x_crossovers, x_volume_confirmed, x_pc, x_out>>

VARIABLES
    sch_file,               \* the alert-state file: whether write_text has
                            \* emptied and not yet written it, and its keys
    sch_state,              \* the local variable state of each loop
    sch_pc,                 \* where each loop stands
    sch_rounds,             \* the rounds that each loop has begun
    sch_written             \* the keys that the latest saved run of each loop
                            \* computed, if there is one

schedulerVars == <<sch_file, sch_state, sch_pc, sch_rounds, sch_written>>

VARIABLES
    lb_analyzer,            \* which analyzer calculates: "batch" or "single"
    lb_len,                 \* len(data), the bars of the series
    lb_pc,                  \* "fetched", then "done"
    lb_out                  \* whether an access was out of range, and the
                            \* keys that the indicator set has

lookbackVars == <<lb_analyzer, lb_len, lb_pc, lb_out>>

VARIABLES
    cc_bucket,              \* the objects of the S3 bucket, by key
    cc_upstream,            \* the version of the series that yfinance serves
    cc_cleared,             \* the tickers whose clear_cache returned True and
                            \* which had an entry, not fetched since
    cc_last                 \* the last call and what it returned

cacheVars == <<cc_bucket, cc_upstream, cc_cleared, cc_last>>

vars ==
    <<fetchVars, recVars, uniVars, loaderVars, poolVars, signalVars,
      rerunVars, analyzeVars, frameVars, barsVars, confidenceVars, vcpVars,
      breakoutVars, crossVars, schedulerVars, lookbackVars, cacheVars>>

otherThanFetch ==
    <<recVars, uniVars, loaderVars, poolVars, signalVars, rerunVars,
      analyzeVars, frameVars, barsVars, confidenceVars, vcpVars,
      breakoutVars, crossVars, schedulerVars, lookbackVars, cacheVars>>

otherThanRec ==
    <<fetchVars, uniVars, loaderVars, poolVars, signalVars, rerunVars,
      analyzeVars, frameVars, barsVars, confidenceVars, vcpVars,
      breakoutVars, crossVars, schedulerVars, lookbackVars, cacheVars>>

otherThanUniverse ==
    <<fetchVars, recVars, loaderVars, poolVars, signalVars, rerunVars,
      analyzeVars, frameVars, barsVars, confidenceVars, vcpVars,
      breakoutVars, crossVars, schedulerVars, lookbackVars, cacheVars>>

otherThanLoader ==
    <<fetchVars, recVars, uniVars, poolVars, signalVars, rerunVars,
      analyzeVars, frameVars, barsVars, confidenceVars, vcpVars,
      breakoutVars, crossVars, schedulerVars, lookbackVars, cacheVars>>

otherThanPool ==
    <<fetchVars, recVars, uniVars, loaderVars, signalVars, rerunVars,
      analyzeVars, frameVars, barsVars, confidenceVars, vcpVars,
      breakoutVars, crossVars, schedulerVars, lookbackVars, cacheVars>>

otherThanSignal ==
    <<fetchVars, recVars, uniVars, loaderVars, poolVars, rerunVars,
      analyzeVars, frameVars, barsVars, confidenceVars, vcpVars,
      breakoutVars, crossVars, schedulerVars, lookbackVars, cacheVars>>

otherThanRerun ==
    <<fetchVars, recVars, uniVars, loaderVars, poolVars, signalVars,
      analyzeVars, frameVars, barsVars, confidenceVars, vcpVars,
      breakoutVars, crossVars, schedulerVars, lookbackVars, cacheVars>>

otherThanAnalyze ==
    <<fetchVars, recVars, uniVars, loaderVars, poolVars, signalVars,
      rerunVars, frameVars, barsVars, confidenceVars, vcpVars,
      breakoutVars, crossVars, schedulerVars, lookbackVars, cacheVars>>

otherThanFrame ==
    <<fetchVars, recVars, uniVars, loaderVars, poolVars, signalVars,
      rerunVars, analyzeVars, barsVars, confidenceVars, vcpVars,
      breakoutVars, crossVars, schedulerVars, lookbackVars, cacheVars>>

otherThanBars ==
    <<fetchVars, recVars, uniVars, loaderVars, poolVars, signalVars,
      rerunVars, analyzeVars, frameVars, confidenceVars, vcpVars,
      breakoutVars, crossVars, schedulerVars, lookbackVars, cacheVars>>

otherThanConfidence ==
    <<fetchVars, recVars, uniVars, loaderVars, poolVars, signalVars,
      rerunVars, analyzeVars, frameVars, barsVars, vcpVars, breakoutVars,
      crossVars, schedulerVars, lookbackVars, cacheVars>>

otherThanVcp ==
    <<fetchVars, recVars, uniVars, loaderVars, poolVars, signalVars,
      rerunVars, analyzeVars, frameVars, barsVars, confidenceVars,
      breakoutVars, crossVars, schedulerVars, lookbackVars, cacheVars>>

otherThanBreakout ==
    <<fetchVars, recVars, uniVars, loaderVars, poolVars, signalVars,
      rerunVars, analyzeVars, frameVars, barsVars, confidenceVars, vcpVars,
      crossVars, schedulerVars, lookbackVars, cacheVars>>

otherThanCross ==
    <<fetchVars, recVars, uniVars, loaderVars, poolVars, signalVars,
      rerunVars, analyzeVars, frameVars, barsVars, confidenceVars, vcpVars,
      breakoutVars, schedulerVars, lookbackVars, cacheVars>>

otherThanScheduler ==
    <<fetchVars, recVars, uniVars, loaderVars, poolVars, signalVars,
      rerunVars, analyzeVars, frameVars, barsVars, confidenceVars, vcpVars,
      breakoutVars, crossVars, lookbackVars, cacheVars>>

otherThanLookback ==
    <<fetchVars, recVars, uniVars, loaderVars, poolVars, signalVars,
      rerunVars, analyzeVars, frameVars, barsVars, confidenceVars, vcpVars,
      breakoutVars, crossVars, schedulerVars, cacheVars>>

otherThanCache ==
    <<fetchVars, recVars, uniVars, loaderVars, poolVars, signalVars,
      rerunVars, analyzeVars, frameVars, barsVars, confidenceVars, vcpVars,
      breakoutVars, crossVars, schedulerVars, lookbackVars>>

(***************************************************************************)
(* BatchStockAnalyzer                                                      *)
(***************************************************************************)
InitFetch ==
    /\ input \in SeqsUpTo(RawInputs, MaxSymbols) \ {<<>>}
    /\ symbols = NormaliseSymbols(input)
    /\ period \in {NormalisePeriod(p) : p \in Periods}
    /\ batch_size \in 1..MaxBatchSize
    /\ data_cache = EmptyMap
    /\ ticker_cache = {}
    /\ session_reset_attempts = 0
    /\ pc = "start"
    /\ uncached = <<>>
    /\ i = 1
    /\ results = EmptyMap
    /\ retry_count = 0
    /\ delay = 0
    /\ fb_idx = 1
    /\ fb_method = 1
    /\ fb_results = EmptyMap
    /\ batch_symbols = <<>>
    /\ batch_results = EmptyMap
    /\ requests = 0
    /\ outcome = NoOutcome
    /\ fb_log = <<>>

\* uncached_symbols[i:i + self.batch_size]
Batch ==
    SubSeq(uncached, i, IF i + batch_size - 1 < Len(uncached)
                        THEN i + batch_size - 1 ELSE Len(uncached))

\* mutant: the symbols that were already cached are not added
AddCachedDropped(res, cache) == res

\* "Add cached symbols to results"
AddCached(res, cache) ==
    Merge([s \in (Range(symbols) \cap DOMAIN cache) \ DOMAIN res |-> TRUE], res)

\* fetch_batch_data up to the first download request, called on a new
\* analyzer object or again on one whose previous call has returned
FetchBatchData ==
    /\ pc \in {"start", "done"}
    /\ LET unc == SelectSeq(symbols, LAMBDA s : s \notin DOMAIN data_cache)
       IN  /\ uncached' = unc
           /\ IF unc = <<>>
              THEN /\ results' = [s \in Range(symbols) |-> TRUE]
                   /\ pc' = "done"
              ELSE /\ results' = EmptyMap
                   /\ pc' = "batch"
    /\ i' = 1
    /\ retry_count' = 0
    /\ delay' = 0
    /\ batch_symbols' = <<>>
    /\ batch_results' = EmptyMap
    /\ requests' = 0
    /\ outcome' = NoOutcome
    /\ fb_log' = <<>>
    /\ UNCHANGED otherThanFetch
    /\ UNCHANGED <<input, symbols, period, batch_size, data_cache, ticker_cache,
                   session_reset_attempts, fb_idx, fb_method, fb_results>>

\* _fetch_single_batch returns br to the loop of fetch_batch_data
ReturnBatch(br, cache) ==
    /\ batch_results' = br
    /\ retry_count' = 0
    /\ IF i + batch_size <= Len(uncached)
       THEN /\ results' = Merge(results, br)
            /\ i' = i + batch_size
            /\ pc' = "batch"
            /\ delay' = batch_delay
       ELSE /\ results' = AddCached(Merge(results, br), cache)
            /\ i' = i
            /\ pc' = "done"
            /\ delay' = delay

\* the single-symbol case of _fetch_single_batch
SingleAccepted(d) == ~Empty(d)

\* the multi-symbol case of _fetch_single_batch, for one symbol
MultiAccepted(r) ==
    CASE r.shape = "columns" ->
            ~Empty(r.data) /\ r.data.bars >= MinBars
                /\ RequiredColumns \subseteq r.data.cols
      [] r.shape = "level0" ->
            (r.data.cols \cap OHLCV) # {}
                /\ ~Empty(r.data) /\ r.data.bars >= MinBars
      [] OTHER -> FALSE

\* request number retry_count + 1 of the batch is issued and ends as o
Requested(o) ==
    /\ requests' = retry_count + 1
    /\ outcome' = o

\* a download request of the batch answers
BatchOk ==
    /\ pc = "batch"
    /\ batch_symbols' = Batch
    /\ Requested([kind |-> "ok", reset |-> "none"])
    /\ fb_log' = <<>>
    /\ \E resp \in [Range(Batch) -> SymbolResponses] :
          LET ok == IF Len(Batch) = 1
                    THEN [s \in Range(Batch) |-> SingleAccepted(resp[s].data)]
                    ELSE [s \in Range(Batch) |-> MultiAccepted(resp[s])]
              stored == {s \in Range(Batch) : ok[s]}
              cache == Merge(data_cache, [s \in stored |-> resp[s].data])
          IN  /\ data_cache' = cache
              /\ ticker_cache' = IF Len(Batch) = 1 THEN ticker_cache
                                 ELSE ticker_cache \cup stored
              /\ ReturnBatch(ok, cache)
    /\ UNCHANGED otherThanFetch
    /\ UNCHANGED <<input, symbols, period, batch_size, session_reset_attempts,
                   uncached, fb_idx, fb_method, fb_results>>

\* exponential backoff with jitter, in tenths of a second
RECURSIVE Pow2(_)
Pow2(n) == IF n = 0 THEN 1 ELSE 2 * Pow2(n - 1)

Backoff(rc) == base_delay * Pow2(rc) + jitter

\* mutant: one retry too many
CanRetryOffByOne == retry_count <= max_retries

\* retry_count < max_retries
CanRetry == retry_count < max_retries

\* mutant: one session reset too many
CanResetOffByOne == session_reset_attempts <= max_session_resets

\* self.session_reset_attempts < self.max_session_resets
CanReset == session_reset_attempts < max_session_resets

\* the retry of _fetch_single_batch(symbols, retry_count + 1)
Retry ==
    /\ delay' = Backoff(retry_count)
    /\ retry_count' = retry_count + 1
    /\ pc' = "batch"
    /\ UNCHANGED <<i, results, batch_results, fb_idx, fb_method, fb_results>>

\* mutant: only the first symbol of the batch is marked failed
AllFailedFirstOnly == [s \in {Batch[1]} |-> FALSE]

\* "Mark all symbols in this batch as failed"
AllFailed == [s \in Range(Batch) |-> FALSE]

\* return self._fallback_individual_downloads(symbols)
EnterFallback ==
    /\ pc' = "fallback"
    /\ fb_idx' = 1
    /\ fb_method' = 1
    /\ fb_results' = EmptyMap
    /\ fb_log' = [k \in 1..Len(Batch) |-> <<>>]
    /\ UNCHANGED <<i, results, batch_results, retry_count, delay>>

\* mutant: beyond the retry ceiling the batch goes to the fallback
BatchRateLimitFallsBack ==
    /\ pc = "batch"
    /\ batch_symbols' = Batch
    /\ Requested([kind |-> "rate", reset |-> "none"])
    /\ IF CanRetry
       THEN Retry /\ fb_log' = <<>>
       ELSE EnterFallback
    /\ UNCHANGED otherThanFetch
    /\ UNCHANGED <<input, symbols, period, batch_size, data_cache, ticker_cache,
                   session_reset_attempts, uncached>>

\* a download request of the batch fails with a rate-limit or timeout error
BatchRateLimit ==
    /\ pc = "batch"
    /\ batch_symbols' = Batch
    /\ Requested([kind |-> "rate", reset |-> "none"])
    /\ fb_log' = <<>>
    /\ IF CanRetry
       THEN Retry
       ELSE /\ ReturnBatch(AllFailed, data_cache)
            /\ UNCHANGED <<fb_idx, fb_method, fb_results>>
    /\ UNCHANGED otherThanFetch
    /\ UNCHANGED <<input, symbols, period, batch_size, data_cache, ticker_cache,
                   session_reset_attempts, uncached>>

\* a download request of the batch fails with an authentication error
BatchAuthError ==
    /\ pc = "batch"
    /\ batch_symbols' = Batch
    /\ IF CanReset
       THEN \E reset_ok \in BOOLEAN :
              IF reset_ok
              THEN /\ session_reset_attempts' = session_reset_attempts + 1
                   /\ Requested([kind |-> "auth", reset |-> "ok"])
                   /\ IF CanRetry
                      THEN Retry /\ fb_log' = <<>>
                      ELSE EnterFallback
              ELSE /\ session_reset_attempts' = session_reset_attempts
                   /\ Requested([kind |-> "auth", reset |-> "failed"])
                   /\ EnterFallback
       ELSE /\ session_reset_attempts' = session_reset_attempts
            /\ Requested([kind |-> "auth", reset |-> "none"])
            /\ EnterFallback
    /\ UNCHANGED otherThanFetch
    /\ UNCHANGED <<input, symbols, period, batch_size, data_cache, ticker_cache,
                   uncached>>

\* mutant: any other error sends the batch to the fallback
BatchOtherErrorFallsBack ==
    /\ pc = "batch"
    /\ batch_symbols' = Batch
    /\ Requested([kind |-> "other", reset |-> "none"])
    /\ EnterFallback
    /\ UNCHANGED otherThanFetch
    /\ UNCHANGED <<input, symbols, period, batch_size, data_cache, ticker_cache,
                   session_reset_attempts, uncached>>

\* a download request of the batch fails with any other error
BatchOtherError ==
    /\ pc = "batch"
    /\ batch_symbols' = Batch
    /\ Requested([kind |-> "other", reset |-> "none"])
    /\ fb_log' = <<>>
    /\ ReturnBatch(AllFailed, data_cache)
    /\ UNCHANGED otherThanFetch
    /\ UNCHANGED <<input, symbols, period, batch_size, data_cache, ticker_cache,
                   session_reset_attempts, uncached, fb_idx, fb_method,
                   fb_results>>

(***************************************************************************)
(* _fallback_individual_downloads                                          *)
(***************************************************************************)
\* the check every method of the fallback makes before it stores a series
FallbackAccepted(o) ==
    /\ ~o.raises
    /\ ~Empty(o.data)
    /\ o.data.bars >= MinBars
    /\ RequiredColumns \subseteq o.data.cols

\* shorter_period of method 3
shorter_period == "3mo"

\* the period a method of the fallback asks for
MethodPeriod(m) == IF m = 3 THEN shorter_period ELSE period

\* method 3 is tried when the first two failed and self.period != "3mo"
Method3Applies == period # shorter_period

\* the loop goes on to the next symbol, or the fallback returns
NextSymbol(res, cache) ==
    IF fb_idx < Len(Batch)
    THEN /\ pc' = "fallback"
         /\ fb_idx' = fb_idx + 1
         /\ fb_method' = 1
         /\ fb_results' = res
         /\ delay' = fallback_delay
         /\ UNCHANGED <<i, results, batch_results, retry_count>>
    ELSE /\ fb_idx' = 1
         /\ fb_method' = 1
         /\ fb_results' = EmptyMap
         /\ batch_results' = res
         /\ retry_count' = 0
         /\ IF i + batch_size <= Len(uncached)
            THEN /\ results' = Merge(results, res)
                 /\ i' = i + batch_size
                 /\ pc' = "batch"
                 /\ delay' = batch_delay
            ELSE /\ results' = AddCached(Merge(results, res), cache)
                 /\ i' = i
                 /\ pc' = "done"
                 /\ delay' = fallback_delay

\* mutant: the fallback marks a symbol successful without storing its series
FallbackRequestNoStore(m, last) ==
    /\ pc = "fallback"
    /\ fb_method = m
    /\ \E o \in FallbackOutcomes :
          LET symbol == Batch[fb_idx]
              success == FallbackAccepted(o)
              cache == IF success THEN Merge(data_cache, [s \in {symbol} |-> o.data])
                       ELSE data_cache
          IN  /\ fb_log' = [fb_log EXCEPT ![fb_idx] =
                               Append(@, [method |-> m, period |-> MethodPeriod(m),
                                          ok |-> success])]
              /\ data_cache' = data_cache
              /\ ticker_cache' = IF success THEN ticker_cache \cup {symbol}
                                 ELSE ticker_cache
              /\ IF success
                 THEN NextSymbol(Merge(fb_results, [s \in {symbol} |-> TRUE]), cache)
                 ELSE IF last
                      THEN NextSymbol(Merge(fb_results, [s \in {symbol} |-> FALSE]),
                                      cache)
                      ELSE /\ fb_method' = m + 1
                           /\ UNCHANGED <<i, results, batch_results, retry_count,
                                          delay, fb_idx, fb_results, pc>>
    /\ UNCHANGED otherThanFetch
    /\ UNCHANGED <<input, symbols, period, batch_size, session_reset_attempts,
                   uncached, batch_symbols, requests, outcome>>

\* one request of the fallback for the current symbol, by method m
FallbackRequest(m, last) ==
    /\ pc = "fallback"
    /\ fb_method = m
    /\ \E o \in FallbackOutcomes :
          LET symbol == Batch[fb_idx]
              success == FallbackAccepted(o)
              cache == IF success THEN Merge(data_cache, [s \in {symbol} |-> o.data])
                       ELSE data_cache
          IN  /\ fb_log' = [fb_log EXCEPT ![fb_idx] =
                               Append(@, [method |-> m, period |-> MethodPeriod(m),
                                          ok |-> success])]
              /\ data_cache' = cache
              /\ ticker_cache' = IF success THEN ticker_cache \cup {symbol}
                                 ELSE ticker_cache
              /\ IF success
                 THEN NextSymbol(Merge(fb_results, [s \in {symbol} |-> TRUE]), cache)
                 ELSE IF last
                      THEN NextSymbol(Merge(fb_results, [s \in {symbol} |-> FALSE]),
                                      cache)
                      ELSE /\ fb_method' = m + 1
                           /\ UNCHANGED <<i, results, batch_results, retry_count,
                                          delay, fb_idx, fb_results, pc>>
    /\ UNCHANGED otherThanFetch
    /\ UNCHANGED <<input, symbols, period, batch_size, session_reset_attempts,
                   uncached, batch_symbols, requests, outcome>>

\* Method 1: ticker.history(period=self.period)
FallbackMethod1 == FallbackRequest(1, FALSE)

\* Method 2: yf.download(symbol, period=self.period, auto_adjust=False)
FallbackMethod2 == FallbackRequest(2, ~Method3Applies)

\* Method 3: yf.download(symbol, period="3mo")
FallbackMethod3 == FallbackRequest(3, TRUE)

NextFetch ==
    \/ FetchBatchData
    \/ BatchOk
    \/ BatchRateLimit
    \/ BatchAuthError
    \/ BatchOtherError
    \/ FallbackMethod1
    \/ FallbackMethod2
    \/ FallbackMethod3

(***************************************************************************)
(* RecommendationEngine.  Prices are whole cents, scores are thousandths,  *)
(* multipliers and percentages are per mille.                              *)
(***************************************************************************)
\* highest current price, in cents
MaxPriceCents == 200

\* final scores at and around the thresholds
ScoreChoices == {-1000, -501, -500, -201, -200, 0, 199, 200, 499, 500, 1000}

Labels == {"Strong Buy", "Buy", "Hold", "Sell", "Strong Sell"}

\* self.thresholds
thresholds ==
    [strong_buy |-> 500, buy |-> 200, hold |-> -200, sell |-> -500,
     strong_sell |-> -1000]

\* self.target_multipliers
target_multipliers(label) ==
    CASE label = "Strong Buy" -> 1200
      [] label = "Buy" -> 1100
      [] label = "Hold" -> 1020
      [] label = "Sell" -> 950
      [] label = "Strong Sell" -> 800

\* self.stop_loss_percentages
stop_loss_percentages(label) ==
    CASE label = "Strong Buy" -> 80
      [] label = "Buy" -> 60
      [] label = "Hold" -> 15
      [] label = "Sell" -> 40
      [] label = "Strong Sell" -> 60

\* mutant: the lower bounds are exclusive
score_to_recommendation_exclusive(score) ==
    IF score > thresholds.strong_buy THEN "Strong Buy"
    ELSE IF score > thresholds.buy THEN "Buy"
    ELSE IF score > thresholds.hold THEN "Hold"
    ELSE IF score > thresholds.sell THEN "Sell"
    ELSE "Strong Sell"

\* _score_to_recommendation
score_to_recommendation(score) ==
    IF score >= thresholds.strong_buy THEN "Strong Buy"
    ELSE IF score >= thresholds.buy THEN "Buy"
    ELSE IF score >= thresholds.hold THEN "Hold"
    ELSE IF score >= thresholds.sell THEN "Sell"
    ELSE "Strong Sell"

\* round(x, 2) of x = n / 1000 cents: the nearest cent; halfway between two
\* cents the binary value of the product decides, so both are possible
Round2(n) ==
    LET q == n \div 1000
        r == n % 1000
    IN  IF r > 500 THEN {q + 1}
        ELSE IF r < 500 THEN {q}
        ELSE {q, q + 1}

\* _calculate_target_price: round(current_price * multiplier, 2)
calculate_target_price(price, label) == Round2(price * target_multipliers(label))

\* _calculate_stop_loss: below the price for the buy side and Hold, above it
\* for the sell side
calculate_stop_loss(price, label) ==
    IF label \in {"Strong Buy", "Buy", "Hold"}
    THEN Round2(price * (1000 - stop_loss_percentages(label)))
    ELSE Round2(price * (1000 + stop_loss_percentages(label)))

InitRec ==
    /\ final_score \in ScoreChoices
    /\ current_price \in 0..MaxPriceCents
    /\ recommendation = "none"
    /\ target_price = 0
    /\ stop_loss = 0
    /\ rec_pc = "input"

\* generate_recommendations, for the latest row of a non-empty frame
GenerateRecommendations ==
    /\ rec_pc = "input"
    /\ rec_pc' = "done"
    /\ IF current_price <= 0
       THEN /\ recommendation' = "Hold"
            /\ target_price' = 0
            /\ stop_loss' = 0
       ELSE /\ recommendation' = score_to_recommendation(final_score)
            /\ target_price' \in calculate_target_price(current_price, recommendation')
            /\ stop_loss' \in calculate_stop_loss(current_price, recommendation')
    /\ UNCHANGED <<final_score, current_price>>
    /\ UNCHANGED otherThanRec

NextRec == GenerateRecommendations

(***************************************************************************)
(* ModularStockAnalyzer.analyze_universe over DataLoader.fetch_universe    *)
(***************************************************************************)
\* longest list of tickers handed to analyze_universe
MaxTickers == 3

TickerNames == {"AAPL", "MSFT", "NVDA"}

\* fetch_universe: the size up to which all tickers form one batch
universe_batch_limit == 50

\* compute_all_indicators: the least number of rows it computes for
indicator_min_rows == 50

\* lists of distinct tickers
DistinctSeqs(S, n) ==
    {q \in SeqsUpTo(S, n) : \A j, k \in 1..Len(q) : j # k => q[j] # q[k]}

\* what yf.download hands to fetch_single_ticker
UpstreamFrames ==
    [bars : {0, indicator_min_rows + 10},
     cols : {OHLCV, OHLCV \ {"Volume"}},
     bad : {"none", "high_lt_low", "close_gt_high", "close_lt_low"}]

UpstreamResponses ==
    {[raises |-> TRUE, data |-> [bars |-> 0, cols |-> {}, bad |-> "none"]]}
        \cup [raises : {FALSE}, data : UpstreamFrames]

EmptyFrame == [bars |-> 0, cols |-> {}, bad |-> "none"]

\* _clean_data
clean_data(df) ==
    IF Empty(df) THEN df
    ELSE IF ~(OHLCV \subseteq df.cols) THEN EmptyFrame
    ELSE IF df.bad = "high_lt_low" THEN EmptyFrame
    ELSE IF df.bad \in {"close_gt_high", "close_lt_low"} THEN EmptyFrame
    ELSE df

\* fetch_single_ticker without the cache (use_s3_cache is False)
fetch_single_ticker(resp) ==
    IF resp.raises THEN EmptyFrame
    ELSE IF Empty(resp.data) THEN EmptyFrame
    ELSE clean_data(resp.data)

\* the tickers of the batch that starts at position st
BatchTickers(st, size) ==
    {tickers[k] : k \in {j \in DOMAIN tickers : j >= st /\ j < st + size}}

InitUniverse ==
    /\ tickers \in DistinctSeqs(TickerNames, MaxTickers) \ {<<>>}
    /\ u_batch_size = 0
    /\ u_start = 1
    /\ u_pending = {}
    /\ u_results = <<>>
    /\ u_failed = {}
    /\ u_recs = <<>>
    /\ u_pc = "start"

\* analyze_universe up to the submission of the first batch by fetch_batch
AnalyzeUniverse ==
    /\ u_pc = "start"
    /\ LET size == IF Len(tickers) <= universe_batch_limit
                   THEN Len(tickers) ELSE universe_batch_limit
       IN  /\ u_batch_size' = size
           /\ u_pending' = BatchTickers(1, size)
    /\ u_start' = 1
    /\ u_results' = <<>>
    /\ u_pc' = "fetching"
    /\ UNCHANGED <<tickers, u_failed, u_recs>>
    /\ UNCHANGED otherThanUniverse

\* one fetch of the current batch completes; fetch_batch keeps its frame
\* if it is not empty, and goes on to the next batch after the last one
FetchSingleTicker ==
    /\ u_pc = "fetching"
    /\ \E t \in u_pending, resp \in UpstreamResponses :
          LET df == fetch_single_ticker(resp)
              rest == u_pending \ {t}
          IN  /\ IF Empty(df)
                 THEN /\ u_results' = u_results
                      /\ u_failed' = u_failed \cup {t}
                 ELSE /\ u_results' = Append(u_results, [ticker |-> t, df |-> df])
                      /\ u_failed' = u_failed
              /\ IF rest # {}
                 THEN /\ u_pending' = rest
                      /\ UNCHANGED <<u_start, u_pc>>
                 ELSE IF u_start + u_batch_size <= Len(tickers)
                      THEN /\ u_start' = u_start + u_batch_size
                           /\ u_pending' = BatchTickers(u_start + u_batch_size,
                                                        u_batch_size)
                           /\ u_pc' = u_pc
                      ELSE /\ u_pending' = rest
                           /\ u_start' = u_start
                           /\ u_pc' = "fetched"
    /\ UNCHANGED <<tickers, u_batch_size, u_recs>>
    /\ UNCHANGED otherThanUniverse

\* compute_all_indicators: a frame of fewer than 50 rows comes back as it is
compute_all_indicators(df) ==
    df

\* generate_signals: an empty frame comes back as it is
generate_signals(df) == df

\* steps 2 to 5 of analyze_universe: one recommendation per frame that
\* fetch_universe returned
Pipeline ==
    /\ u_pc = "fetched"
    /\ LET kept == SelectSeq(u_results,
                       LAMBDA e : ~Empty(generate_signals(compute_all_indicators(e.df))))
       IN  u_recs' = [k \in 1..Len(kept) |->
                         [symbol |-> kept[k].ticker, error |-> FALSE,
                          data_points |-> kept[k].df.bars]]
    /\ u_pc' = "done"
    /\ UNCHANGED <<tickers, u_batch_size, u_start, u_pending, u_results, u_failed>>
    /\ UNCHANGED otherThanUniverse

NextUniverse ==
    \/ AnalyzeUniverse
    \/ FetchSingleTicker
    \/ Pipeline

(***************************************************************************)
(* DataLoader.fetch_single_ticker with the S3 cache (use_s3_cache is True),*)
(* called for one ticker by several threads, while time passes.            *)
(***************************************************************************)
\* number of threads calling fetch_single_ticker
MaxThreads == 2
\* the last instant of the clock
MaxClock == 4

\* units of the clock per day
DayUnits == 2

\* self.cache_ttl_days
cache_ttl_days == 1

Threads == 1..MaxThreads

NoObject == [exists |-> FALSE]

NoFrame == [by |-> 0, neg |-> FALSE]

NoReturn == [kind |-> "none"]

\* timedelta.days of a span that is not negative: its whole days
Days(span) == span \div DayUnits

\* mutant: the upload replaces the data of an existing object and leaves its
\* columns and index
put_object_in_parts(old, lm, df) ==
    IF old.exists
    THEN [exists |-> TRUE, lm |-> lm, body |-> [old.body EXCEPT !.data = df]]
    ELSE [exists |-> TRUE, lm |-> lm,
          body |-> [columns |-> df, index |-> df, data |-> df]]

\* _save_to_cache: columns, index and data of the frame go into one body,
\* which one put_object uploads; the object is replaced as a whole
put_object(old, lm, df) ==
    [exists |-> TRUE, lm |-> lm, body |-> [columns |-> df, index |-> df, data |-> df]]

\* _validate_cached_data, for the frame rebuilt from a body: its Volume is
\* nowhere negative
validate_cached_data(body) == ~body.data.neg

InitLoader ==
    /\ now = 0
    /\ s3 = NoObject
    /\ l_pc = [t \in Threads |-> "idle"]
    /\ l_df = [t \in Threads |-> NoFrame]
    /\ l_ret = NoReturn

\* time passes
Tick ==
    /\ now < MaxClock
    /\ now' = now + 1
    /\ UNCHANGED <<s3, l_pc, l_df, l_ret>>
    /\ UNCHANGED otherThanLoader

\* a thread calls fetch_single_ticker
CallFetchSingleTicker(t) ==
    /\ l_pc[t] = "idle"
    /\ l_pc' = [l_pc EXCEPT ![t] = "head"]
    /\ UNCHANGED <<now, s3, l_df, l_ret>>
    /\ UNCHANGED otherThanLoader

\* the object is older than the TTL by the test of _get_from_cache
Expired == Days(now - s3.lm) > cache_ttl_days

\* _get_from_cache: head_object and the test of the age
HeadObject(t) ==
    /\ l_pc[t] = "head"
    /\ IF ~s3.exists
       THEN l_pc' = [l_pc EXCEPT ![t] = "download"]
       ELSE IF Expired
            THEN l_pc' = [l_pc EXCEPT ![t] = "download"]
            ELSE l_pc' = [l_pc EXCEPT ![t] = "get"]
    /\ UNCHANGED <<now, s3, l_df, l_ret>>
    /\ UNCHANGED otherThanLoader

\* _get_from_cache: get_object, the frame rebuilt and validated; a valid
\* frame is what fetch_single_ticker returns
GetObject(t) ==
    /\ l_pc[t] = "get"
    /\ IF s3.exists /\ validate_cached_data(s3.body)
       THEN /\ l_ret' = [kind |-> "hit", body |-> s3.body]
            /\ l_pc' = [l_pc EXCEPT ![t] = "idle"]
       ELSE /\ l_ret' = l_ret
            /\ l_pc' = [l_pc EXCEPT ![t] = "download"]
    /\ UNCHANGED <<now, s3, l_df>>
    /\ UNCHANGED otherThanLoader

\* yf.download and _clean_data
Download(t) ==
    /\ l_pc[t] = "download"
    /\ \E resp \in UpstreamResponses, neg \in BOOLEAN :
          LET df == fetch_single_ticker(resp)
          IN  IF Empty(df)
              THEN /\ l_ret' = [kind |-> "empty"]
                   /\ l_pc' = [l_pc EXCEPT ![t] = "idle"]
                   /\ l_df' = l_df
              ELSE /\ l_df' = [l_df EXCEPT ![t] = [by |-> t, neg |-> neg]]
                   /\ l_pc' = [l_pc EXCEPT ![t] = "save"]
                   /\ l_ret' = l_ret
    /\ UNCHANGED <<now, s3>>
    /\ UNCHANGED otherThanLoader

\* _save_to_cache, which may fail, and the return of the fetched frame
SaveToCache(t) ==
    /\ l_pc[t] = "save"
    /\ \E saved \in BOOLEAN :
          s3' = IF saved THEN put_object(s3, now, l_df[t]) ELSE s3
    /\ l_ret' = [kind |-> "fetched", df |-> l_df[t]]
    /\ l_pc' = [l_pc EXCEPT ![t] = "idle"]
    /\ l_df' = [l_df EXCEPT ![t] = NoFrame]
    /\ UNCHANGED now
    /\ UNCHANGED otherThanLoader

NextLoader ==
    \/ Tick
    \/ \E t \in Threads : CallFetchSingleTicker(t)
    \/ \E t \in Threads : HeadObject(t)
    \/ \E t \in Threads : GetObject(t)
    \/ \E t \in Threads : Download(t)
    \/ \E t \in Threads : SaveToCache(t)

(***************************************************************************)
(* DataLoader.fetch_batch: the batches and the executor of each.  Tickers  *)
(* are named by their position in the list.                                *)
(***************************************************************************)
\* longest list of tickers handed to fetch_batch
MaxPoolTickers == 6
\* largest batch_size handed to fetch_batch
MaxPoolBatch == 3
\* largest max_workers handed to fetch_batch
MaxWorkers == 2

InitPool ==
    /\ p_count \in 1..MaxPoolTickers
    /\ p_batch_size \in 1..MaxPoolBatch
    /\ p_max_workers \in 1..MaxWorkers
    /\ p_i = 1
    /\ p_queued = {}
    /\ p_running = {}
    /\ p_finished = {}
    /\ p_results = {}
    /\ p_sleeps = 0
    /\ p_pc = "submit"

\* tickers[i:i + batch_size]
PoolBatch == {k \in 1..p_count : k >= p_i /\ k < p_i + p_batch_size}

\* a new executor; every ticker of the batch is submitted to it
SubmitBatch ==
    /\ p_pc = "submit"
    /\ p_queued' = PoolBatch
    /\ p_pc' = "pool"
    /\ UNCHANGED <<p_count, p_batch_size, p_max_workers, p_i, p_running,
                   p_finished, p_results, p_sleeps>>
    /\ UNCHANGED otherThanPool

\* a worker thread of the executor is free
WorkerFree == Cardinality(p_running) < p_max_workers

\* a worker thread takes a submitted fetch
StartFetch ==
    /\ p_pc = "pool"
    /\ WorkerFree
    /\ \E k \in p_queued :
          /\ p_queued' = p_queued \ {k}
          /\ p_running' = p_running \cup {k}
    /\ UNCHANGED <<p_count, p_batch_size, p_max_workers, p_i, p_finished,
                   p_results, p_sleeps, p_pc>>
    /\ UNCHANGED otherThanPool

\* a fetch completes; as_completed hands it over, and its frame is kept if
\* it is not empty
FinishFetch ==
    /\ p_pc = "pool"
    /\ \E k \in p_running, empty \in BOOLEAN :
          /\ p_running' = p_running \ {k}
          /\ p_finished' = p_finished \cup {k}
          /\ p_results' = IF empty THEN p_results ELSE p_results \cup {k}
    /\ UNCHANGED <<p_count, p_batch_size, p_max_workers, p_i, p_queued,
                   p_sleeps, p_pc>>
    /\ UNCHANGED otherThanPool

\* mutant: the loop goes on as soon as every fetch has been started
AllStarted == p_queued = {}

\* as_completed is exhausted and the executor has shut down
AllCompleted == p_queued = {} /\ p_running = {}

\* the with block of the executor is left
LeaveExecutor ==
    /\ p_pc = "pool"
    /\ AllCompleted
    /\ p_pc' = IF p_i + p_batch_size <= p_count THEN "sleep" ELSE "done"
    /\ UNCHANGED <<p_count, p_batch_size, p_max_workers, p_i, p_queued,
                   p_running, p_finished, p_results, p_sleeps>>
    /\ UNCHANGED otherThanPool

\* the delay between batches, and the next round of the loop
SleepBetweenBatches ==
    /\ p_pc = "sleep"
    /\ p_sleeps' = p_sleeps + 1
    /\ p_i' = p_i + p_batch_size
    /\ p_pc' = "submit"
    /\ UNCHANGED <<p_count, p_batch_size, p_max_workers, p_queued, p_running,
                   p_finished, p_results>>
    /\ UNCHANGED otherThanPool

NextPool ==
    \/ SubmitBatch
    \/ StartFetch
    \/ FinishFetch
    \/ LeaveExecutor
    \/ SleepBetweenBatches

(***************************************************************************)
(* SignalEngine.generate_signals, for the latest row of a frame.  Weights  *)
(* are in tenths, so that a category signal is in tenths and the final     *)
(* score in hundredths.                                                    *)
(***************************************************************************)
\* self.indicator_weights
indicator_weights == [trend |-> 4, momentum |-> 3, volatility |-> 2, volume |-> 1]

\* mutant: a trend weight that was changed without the others
trend_weights_changed ==
    [EMA_Cross |-> 4, SMA_Cross |-> 3, MACD_Cross |-> 2, ADX_Strength |-> 2]

\* self.trend_weights
trend_weights ==
    [EMA_Cross |-> 3, SMA_Cross |-> 3, MACD_Cross |-> 2, ADX_Strength |-> 2]

\* self.momentum_weights
momentum_weights ==
    [RSI_Signal |-> 4, Stoch_Signal |-> 3, ROC_Signal |-> 2, CCI_Signal |-> 1]

\* self.volatility_weights
volatility_weights == [BB_Position |-> 5, ATR_Signal |-> 3, HV_Signal |-> 2]

\* self.volume_weights
volume_weights == [OBV_Signal |-> 4, Volume_Ratio |-> 3, PVT_Signal |-> 3]

\* the values of np.where(a, 1, np.where(b, -1, 0)), and 0 of an absent column
ThreeWay == {-1, 0, 1}

\* the values of np.where(a, 1, -1), and 0 of an absent column
TwoWay == {-1, 1} \cup {0}

\* the values of np.where(a, 1, 0), and 0 of an absent column
OneWay == {0, 1}

InitSignal ==
    /\ Trend_Signal = 0
    /\ Momentum_Signal = 0
    /\ Volatility_Signal = 0
    /\ Volume_Signal_Combined = 0
    /\ Final_Score = 0
    /\ Final_Score_Normalized = 0
    /\ sig_pc = "trend"

\* _generate_trend_signals; an exception leaves Trend_Signal = 0
GenerateTrendSignals ==
    /\ sig_pc = "trend"
    /\ \E EMA_Signal \in TwoWay, SMA_Signal \in TwoWay, MACD_Signal \in TwoWay,
          ADX_Strength \in OneWay, raised \in BOOLEAN :
          Trend_Signal' =
              IF raised THEN 0
              ELSE EMA_Signal * trend_weights.EMA_Cross
                   + SMA_Signal * trend_weights.SMA_Cross
                   + MACD_Signal * trend_weights.MACD_Cross
                   + ADX_Strength * trend_weights.ADX_Strength
    /\ sig_pc' = "momentum"
    /\ UNCHANGED <<Momentum_Signal, Volatility_Signal, Volume_Signal_Combined,
                   Final_Score, Final_Score_Normalized>>
    /\ UNCHANGED otherThanSignal

\* _generate_momentum_signals
GenerateMomentumSignals ==
    /\ sig_pc = "momentum"
    /\ \E RSI_Signal \in ThreeWay, Stoch_Signal \in ThreeWay,
          ROC_Signal \in ThreeWay, CCI_Signal \in ThreeWay, raised \in BOOLEAN :
          Momentum_Signal' =
              IF raised THEN 0
              ELSE RSI_Signal * momentum_weights.RSI_Signal
                   + Stoch_Signal * momentum_weights.Stoch_Signal
                   + ROC_Signal * momentum_weights.ROC_Signal
                   + CCI_Signal * momentum_weights.CCI_Signal
    /\ sig_pc' = "volatility"
    /\ UNCHANGED <<Trend_Signal, Volatility_Signal, Volume_Signal_Combined,
                   Final_Score, Final_Score_Normalized>>
    /\ UNCHANGED otherThanSignal

\* _generate_volatility_signals
GenerateVolatilitySignals ==
    /\ sig_pc = "volatility"
    /\ \E BB_Signal \in ThreeWay, ATR_Signal \in OneWay, HV_Signal \in ThreeWay,
          raised \in BOOLEAN :
          Volatility_Signal' =
              IF raised THEN 0
              ELSE BB_Signal * volatility_weights.BB_Position
                   + ATR_Signal * volatility_weights.ATR_Signal
                   + HV_Signal * volatility_weights.HV_Signal
    /\ sig_pc' = "volume"
    /\ UNCHANGED <<Trend_Signal, Momentum_Signal, Volume_Signal_Combined,
                   Final_Score, Final_Score_Normalized>>
    /\ UNCHANGED otherThanSignal

\* _generate_volume_signals
GenerateVolumeSignals ==
    /\ sig_pc = "volume"
    /\ \E OBV_Signal \in TwoWay, Volume_Signal \in ThreeWay, PVT_Signal \in TwoWay,
          raised \in BOOLEAN :
          Volume_Signal_Combined' =
              IF raised THEN 0
              ELSE OBV_Signal * volume_weights.OBV_Signal
                   + Volume_Signal * volume_weights.Volume_Ratio
                   + PVT_Signal * volume_weights.PVT_Signal
    /\ sig_pc' = "aggregate"
    /\ UNCHANGED <<Trend_Signal, Momentum_Signal, Volatility_Signal,
                   Final_Score, Final_Score_Normalized>>
    /\ UNCHANGED otherThanSignal

\* the weighted aggregation of _aggregate_signals
weighted_score(t, m, v, o) ==
    t * indicator_weights.trend + m * indicator_weights.momentum
        + v * indicator_weights.volatility + o * indicator_weights.volume

\* np.clip
clip(x, lo, hi) == IF x < lo THEN lo ELSE IF x > hi THEN hi ELSE x

\* mutant: the category signals are added up without their weights, and the
\* sum is passed on as it is
AggregateSignalsUnweighted ==
    /\ sig_pc = "aggregate"
    /\ Final_Score' = 10 * (Trend_Signal + Momentum_Signal + Volatility_Signal
                               + Volume_Signal_Combined)
    /\ Final_Score_Normalized' = Final_Score'
    /\ sig_pc' = "done"
    /\ UNCHANGED <<Trend_Signal, Momentum_Signal, Volatility_Signal,
                   Volume_Signal_Combined>>
    /\ UNCHANGED otherThanSignal

\* _aggregate_signals
AggregateSignals ==
    /\ sig_pc = "aggregate"
    /\ Final_Score' = weighted_score(Trend_Signal, Momentum_Signal,
                                   Volatility_Signal, Volume_Signal_Combined)
    /\ Final_Score_Normalized' = clip(Final_Score', -100, 100)
    /\ sig_pc' = "done"
    /\ UNCHANGED <<Trend_Signal, Momentum_Signal, Volatility_Signal,
                   Volume_Signal_Combined>>
    /\ UNCHANGED otherThanSignal

NextSignal ==
    \/ GenerateTrendSignals
    \/ GenerateMomentumSignals
    \/ GenerateVolatilitySignals
    \/ GenerateVolumeSignals
    \/ AggregateSignals

(***************************************************************************)
(* analyze_single_ticker run again on the series that is in the cache.     *)
(* The series is given by what generate_recommendations reads of it.       *)
(***************************************************************************)
\* number of runs of the analysis
MaxRuns == 2
\* the last instant of the clock of the runs
MaxInstant == 2

\* closing prices of the latest row, in cents
RerunPrices == {0, 1, 50, 150}

\* 1 - std of the last 10 scores: above 0.8, below 0.4, or between
Consistencies == {"high", "low", "mid"}

Abs(x) == IF x < 0 THEN -x ELSE x

\* round(x, 2) where the binary value decides a tie the way up tells
Round2By(n, up) ==
    LET q == n \div 1000
        r == n % 1000
    IN  IF r > 500 \/ (r = 500 /\ up) THEN q + 1 ELSE q

\* _calculate_confidence
calculate_confidence(score, consistency) ==
    LET base == IF Abs(score) >= 700 THEN "High"
                ELSE IF Abs(score) >= 400 THEN "Medium"
                ELSE "Low"
    IN  IF consistency = "high" /\ base = "Medium" THEN "High"
        ELSE IF consistency = "low" /\ base = "High" THEN "Medium"
        ELSE base

\* _empty_recommendation
empty_recommendation(at) ==
    [price |-> 0, recommendation |-> "Hold", score |-> 0, target_price |-> 0,
     stop_loss |-> 0, confidence_level |-> "Low", timestamp |-> at]

\* generate_recommendations at the instant at
generate_recommendations(series, at) ==
    IF series.price <= 0 THEN empty_recommendation(at)
    ELSE LET label == score_to_recommendation(series.score)
         IN  [price |-> series.price,
              recommendation |-> label,
              score |-> series.score,
              target_price |->
                  Round2By(series.price * target_multipliers(label), series.tie_up),
              stop_loss |->
                  IF label \in {"Strong Buy", "Buy", "Hold"}
                  THEN Round2By(series.price * (1000 - stop_loss_percentages(label)),
                                series.tie_up)
                  ELSE Round2By(series.price * (1000 + stop_loss_percentages(label)),
                                series.tie_up),
              confidence_level |-> calculate_confidence(series.score, series.consistency),
              timestamp |-> at]

InitRerun ==
    /\ r_series \in [price : RerunPrices, score : ScoreChoices,
                      consistency : Consistencies, tie_up : BOOLEAN]
    /\ r_utcnow = 0
    /\ r_out = <<>>

\* time passes between two runs
RerunTick ==
    /\ r_utcnow < MaxInstant
    /\ r_utcnow' = r_utcnow + 1
    /\ UNCHANGED <<r_series, r_out>>
    /\ UNCHANGED otherThanRerun

\* analyze_single_ticker on the cached series
AnalyzeSingleTicker ==
    /\ Len(r_out) < MaxRuns
    /\ r_out' = Append(r_out, generate_recommendations(r_series, r_utcnow))
    /\ UNCHANGED <<r_series, r_utcnow>>
    /\ UNCHANGED otherThanRerun

NextRerun ==
    \/ RerunTick
    \/ AnalyzeSingleTicker

(***************************************************************************)
(* BatchStockAnalyzer.analyze_symbol on a cached series.  The series of    *)
(* the indicator library are outside the repository: which of them hold    *)
(* no number, and whether a call raises, is chosen freely.                 *)
(***************************************************************************)
\* lengths of the cached series, at and next to every window
Lengths == {0, 1, 2, 10, 11, 12, 19, 20, 25, 26, 49, 50, 199, 200, 260}

\* the library calls of _calculate_indicators, in the order of the code
CallOrder ==
    <<"MACD", "SMA_20", "SMA_50", "SMA_200", "EMA_12", "EMA_26", "RSI", "Stoch",
      "BB", "ATR", "OBV">>

Calls == {CallOrder[at] : at \in DOMAIN CallOrder}

Pos(c) == CHOOSE at \in DOMAIN CallOrder : CallOrder[at] = c

\* the keys of the indicator set that the calls fill
IndicatorKeys ==
    {"MACD", "MACD_Signal", "MACD_Histogram", "SMA_20", "SMA_50", "SMA_200",
     "EMA_12", "EMA_26", "RSI", "Stoch_K", "Stoch_D", "BB_Upper", "BB_Lower",
     "BB_Middle", "ATR", "OBV"}

CallOf(k) ==
    IF k \in {"MACD", "MACD_Signal", "MACD_Histogram"} THEN "MACD"
    ELSE IF k \in {"Stoch_K", "Stoch_D"} THEN "Stoch"
    ELSE IF k \in {"BB_Upper", "BB_Lower", "BB_Middle"} THEN "BB"
    ELSE k

\* the length below which the code does not make the call; 0: no such test
LengthGuard(c) ==
    CASE c \in {"MACD", "EMA_26"} -> 26
      [] c \in {"SMA_20", "BB"} -> 20
      [] c = "SMA_50" -> 50
      [] c = "SMA_200" -> 200
      [] c = "EMA_12" -> 12
      [] OTHER -> 0

\* _calculate_indicators: "value" a number, "None", or "missing" for a key
\* that the dictionary does not have because an earlier call raised
calculate_indicators(len, nan, raise) ==
    LET raised == raise # "none" /\ len >= LengthGuard(raise)
    IN  [k \in IndicatorKeys |->
            IF raised /\ Pos(CallOf(k)) >= Pos(raise) THEN "missing"
            ELSE IF len < LengthGuard(CallOf(k)) THEN "None"
            ELSE IF CallOf(k) \in nan THEN "None"
            ELSE "value"]

\* the indicator behind each key of the summary
SummaryKeys ==
    [rsi |-> "RSI", macd |-> "MACD", macd_signal |-> "MACD_Signal",
     sma_20 |-> "SMA_20", sma_50 |-> "SMA_50", sma_200 |-> "SMA_200",
     bb_upper |-> "BB_Upper", bb_lower |-> "BB_Lower"]

\* round(indicators.get(k, 0), 2) if indicators.get(k) is not None else 0
summary_of(indicators) ==
    [key \in DOMAIN SummaryKeys |->
        IF indicators[SummaryKeys[key]] = "value" THEN "value" ELSE "0"]

\* analyze_symbol
analyze_symbol(cached, len, columns_missing, nan, raise) ==
    IF ~cached THEN [kind |-> "None"]
    ELSE IF len < 2 THEN [kind |-> "error", error |-> "Insufficient data for analysis"]
    ELSE IF columns_missing
    THEN [kind |-> "error", error |-> "Missing required columns"]
    ELSE LET indicators == calculate_indicators(len, nan, raise)
         IN  IF \A k \in IndicatorKeys : indicators[k] = "missing"
             THEN [kind |-> "error", error |-> "Failed to calculate indicators"]
             ELSE [kind |-> "analysis", indicators |-> indicators,
                   summary |-> summary_of(indicators)]

InitAnalyze ==
    /\ a_cached \in BOOLEAN
    /\ a_len \in Lengths
    /\ a_columns_missing \in BOOLEAN
    /\ a_nan \in {{}} \cup {{c} : c \in Calls} \cup {Calls}
    /\ a_raise \in {"none"} \cup Calls
    /\ a_pc = "start"
    /\ a_out = [kind |-> "none"]

AnalyzeSymbol ==
    /\ a_pc = "start"
    /\ a_out' = analyze_symbol(a_cached, a_len, a_columns_missing, a_nan, a_raise)
    /\ a_pc' = "done"
    /\ UNCHANGED <<a_cached, a_len, a_columns_missing, a_nan, a_raise>>
    /\ UNCHANGED otherThanAnalyze

NextAnalyze == AnalyzeSymbol

(***************************************************************************)
(* SignalEngine.generate_signals on a frame, by the columns of the frame.  *)
(* A column is absent or holds, in its latest row, a value of one of the   *)
(* ranges that the signals tell apart.                                     *)
(***************************************************************************)
\* a pair of columns that are compared: EMA_12 with EMA_26, SMA_50 with
\* SMA_200, MACD with MACD_Signal
CrossClasses == {"absent", "above", "equal", "below"}

\* ADX: at most 25, or above
StrengthClasses == {"absent", "weak", "strong"}

\* RSI_14, Stoch_K, ROC_10, CCI_20: in the range of +1, of 0, or of -1
BandClasses == {"absent", "buy", "neutral", "sell"}

Frames ==
    {f \in [EMA : CrossClasses, SMA : CrossClasses, MACD : CrossClasses,
            MACD_Histogram : BOOLEAN, ADX : StrengthClasses,
            RSI : BandClasses, Stoch : BandClasses, ROC : BandClasses,
            CCI : BandClasses] :
        f.MACD = "absent" => ~f.MACD_Histogram}

\* the Volatility_Signal and Volume_Signal_Combined of the frame: no column
\* of either category, every signal at its lowest, every signal at its highest
RestOfFrame ==
    {<<0, 0>>,
     <<-volatility_weights.BB_Position - volatility_weights.HV_Signal,
       -volume_weights.OBV_Signal - volume_weights.Volume_Ratio
           - volume_weights.PVT_Signal>>,
     <<volatility_weights.BB_Position + volatility_weights.ATR_Signal
           + volatility_weights.HV_Signal,
       volume_weights.OBV_Signal + volume_weights.Volume_Ratio
           + volume_weights.PVT_Signal>>}

\* np.where(a > b, 1, -1), or 0 without the columns
cross_signal(c) == IF c = "absent" THEN 0 ELSE IF c = "above" THEN 1 ELSE -1

\* np.where(df['ADX'] > 25, 1, 0), or 0 without the column
strength_signal(c) == IF c = "strong" THEN 1 ELSE 0

\* np.where(lo, 1, np.where(hi, -1, 0)), or 0 without the column
band_signal(c) == IF c = "buy" THEN 1 ELSE IF c = "sell" THEN -1 ELSE 0

signals_of(f) ==
    [EMA |-> cross_signal(f.EMA), SMA |-> cross_signal(f.SMA),
     MACD |-> cross_signal(f.MACD), ADX |-> strength_signal(f.ADX),
     RSI |-> band_signal(f.RSI), Stoch |-> band_signal(f.Stoch),
     ROC |-> band_signal(f.ROC), CCI |-> band_signal(f.CCI)]

\* _generate_trend_signals: reading MACD_Histogram of a frame that has MACD
\* but not the histogram raises, and the except sets Trend_Signal to 0
trend_signal_of(f) ==
    IF f.MACD # "absent" /\ ~f.MACD_Histogram THEN 0
    ELSE signals_of(f).EMA * trend_weights.EMA_Cross
         + signals_of(f).SMA * trend_weights.SMA_Cross
         + signals_of(f).MACD * trend_weights.MACD_Cross
         + signals_of(f).ADX * trend_weights.ADX_Strength

\* _generate_momentum_signals
momentum_signal_of(f) ==
    signals_of(f).RSI * momentum_weights.RSI_Signal
        + signals_of(f).Stoch * momentum_weights.Stoch_Signal
        + signals_of(f).ROC * momentum_weights.ROC_Signal
        + signals_of(f).CCI * momentum_weights.CCI_Signal

\* generate_signals, for the latest row of the frame f
generate_signals_for(f, rest) ==
    LET score == weighted_score(trend_signal_of(f), momentum_signal_of(f),
                                rest[1], rest[2])
    IN  [signals |-> signals_of(f),
         Trend_Signal |-> trend_signal_of(f),
         Momentum_Signal |-> momentum_signal_of(f),
         Volatility_Signal |-> rest[1],
         Volume_Signal_Combined |-> rest[2],
         Final_Score |-> score,
         Final_Score_Normalized |-> clip(score, -100, 100)]

InitFrame ==
    /\ f_in \in Frames
    /\ f_pc = "start"
    /\ f_out = [idle |-> TRUE]

GenerateSignals ==
    /\ f_pc = "start"
    /\ \E rest \in RestOfFrame : f_out' = generate_signals_for(f_in, rest)
    /\ f_pc' = "done"
    /\ UNCHANGED f_in
    /\ UNCHANGED otherThanFrame

NextFrame == GenerateSignals

(***************************************************************************)
(* ModularStockAnalyzer.analyze_single_ticker by the length of the series: *)
(* compute_all_indicators, generate_signals, generate_recommendations.     *)
(***************************************************************************)
\* lengths of the series: none, short ones, and at the least length
BarLengths == 0..12 \cup {indicator_min_rows - 1, indicator_min_rows}

\* closing prices of the latest row, in cents
BarCloses == {0, 1, 150}

\* compute_all_indicators without the ta library: the indicator columns that
\* hold a number in the latest row.  RSI is set to 50.0 for every length;
\* the rolling means need their window
fallback_indicators(len) ==
    {"RSI"} \cup (IF len >= 20 THEN {"SMA_20"} ELSE {})
            \cup (IF len >= 50 THEN {"SMA_50"} ELSE {})

\* the frames that the ta library can give for a series of
\* indicator_min_rows rows: SMA_200 has no number yet, and CCI_20 is never
\* reached because the module does not import np
ComputedFrames ==
    {f \in Frames :
        /\ f.SMA = "below"
        /\ f.CCI = "absent"
        /\ f.MACD_Histogram
        /\ \A k \in {"EMA", "MACD", "ADX", "RSI", "Stoch", "ROC"} : f[k] # "absent"}

\* the columns of a frame that hold a number in the latest row
indicators_of(f) ==
    {k \in {"EMA", "MACD", "ADX", "RSI", "Stoch", "ROC", "CCI"} : f[k] # "absent"}
        \cup {"SMA_50"}

\* generate_recommendations for the score (in thousandths) of the latest row
recommendation_of(close, indicators, score) ==
    IF close <= 0
    THEN [kind |-> "empty_recommendation", indicators |-> indicators,
          score |-> 0, recommendation |-> "Hold"]
    ELSE [kind |-> "recommendation", indicators |-> indicators,
          score |-> score, recommendation |-> score_to_recommendation(score)]

InitBars ==
    /\ b_len \in BarLengths
    /\ b_close \in BarCloses
    /\ b_ta \in BOOLEAN
    /\ b_pc = "start"
    /\ b_out = [idle |-> TRUE]

\* analyze_single_ticker
AnalyzeBars ==
    /\ b_pc = "start"
    /\ IF b_len = 0
       THEN b_out' = [kind |-> "empty_analysis", indicators |-> {}, score |-> 0,
                      recommendation |-> "Hold"]
       ELSE IF ~b_ta
       THEN b_out' = recommendation_of(b_close, fallback_indicators(b_len), 0)
       ELSE IF b_len < indicator_min_rows
       THEN b_out' = recommendation_of(b_close, {}, 0)
       ELSE \E f \in ComputedFrames, rest \in RestOfFrame :
               b_out' = recommendation_of(b_close, indicators_of(f),
                            10 * generate_signals_for(f, rest).Final_Score_Normalized)
    /\ b_pc' = "done"
    /\ UNCHANGED <<b_len, b_close, b_ta>>
    /\ UNCHANGED otherThanBars

NextBars == AnalyzeBars

(***************************************************************************)
(* RecommendationEngine._calculate_confidence by the score, the number of  *)
(* rows and the std of the last 10 final scores.                           *)
(***************************************************************************)
\* the rows that the consistency is taken of
consistency_rows == 10

\* final scores at and next to 0.4 and 0.7, in thousandths
ConfidenceScores == {-1000, -700, -699, -400, -399, 0, 399, 400, 699, 700, 1000}

\* numbers of rows at and next to consistency_rows
ConfidenceRows == {1, consistency_rows - 1, consistency_rows, consistency_rows + 1}

\* stds at and next to 0.2 and 0.6, up to the largest std of 10 scores in
\* [-1, 1], in thousandths
ConfidenceStds == {0, 199, 200, 201, 599, 600, 601, 1054}

\* mutant: the consistency is taken of a series of any length
score_consistency_any_length(rows, std) ==
    IF 1000 - std > 800 THEN "high"
    ELSE IF 1000 - std < 400 THEN "low"
    ELSE "mid"

\* score_consistency = 1 - recent_scores.std(), looked at only when
\* len(df) >= 10: above 0.8, below 0.4, or neither
score_consistency(rows, std) ==
    IF rows < consistency_rows THEN "mid"
    ELSE IF 1000 - std > 800 THEN "high"
    ELSE IF 1000 - std < 400 THEN "low"
    ELSE "mid"

InitConfidence ==
    /\ c_score \in ConfidenceScores
    /\ c_rows \in ConfidenceRows
    /\ c_std \in ConfidenceStds
    /\ c_pc = "start"
    /\ c_out = "none"

\* _calculate_confidence
CalculateConfidence ==
    /\ c_pc = "start"
    /\ c_out' = calculate_confidence(c_score, score_consistency(c_rows, c_std))
    /\ c_pc' = "done"
    /\ UNCHANGED <<c_score, c_rows, c_std>>
    /\ UNCHANGED otherThanConfidence

NextConfidence == CalculateConfidence

(***************************************************************************)
(* BatchStockAnalyzer._detect_vcp_pattern and StockAnalyzer                *)
(* .detect_vcp_pattern, which are the same code, by the three quantities   *)
(* that the detector compares.                                             *)
(***************************************************************************)
\* the least length of a series that the detector looks at
vcp_min_rows == 50

VcpLengths == {0, vcp_min_rows - 1, vcp_min_rows, vcp_min_rows + 10}

\* slopes at and next to -0.001, in 1/10000
RangeTrends == {-11, -10, 0}

\* avg_close / avg_high at and next to 0.95, in thousandths
CloseToHigh == {949, 950, 1000}

\* recent / earlier volume at and next to 0.8, in thousandths
VolumeRatios == {799, 800, 1200}

\* range_trend < -0.001
contracting(trend) == trend < -10

\* avg_close >= avg_high * 0.95
near_highs(ratio) == ratio >= 950

\* recent_volume.mean() < earlier_volume.mean() * 0.8
volume_decreasing(ratio) == ratio < 800

detect_vcp_pattern(len, trend, close_to_high, volume_ratio) ==
    IF len < vcp_min_rows THEN [pattern |-> "INSUFFICIENT_DATA", strength |-> 0]
    ELSE LET pattern_strength ==
                 (IF contracting(trend) THEN 2 ELSE 0)
                 + (IF near_highs(close_to_high) THEN 2 ELSE 0)
                 + (IF volume_decreasing(volume_ratio) THEN 1 ELSE 0)
         IN  [pattern |-> IF pattern_strength >= 4 THEN "STRONG_VCP"
                          ELSE IF pattern_strength >= 2 THEN "WEAK_VCP"
                          ELSE "NO_VCP",
              strength |-> pattern_strength]

InitVcp ==
    /\ v_len \in VcpLengths
    /\ v_range_trend \in RangeTrends
    /\ v_close_to_high \in CloseToHigh
    /\ v_volume_ratio \in VolumeRatios
    /\ v_pc = "start"
    /\ v_out = [idle |-> TRUE]

DetectVcpPattern ==
    /\ v_pc = "start"
    /\ v_out' = detect_vcp_pattern(v_len, v_range_trend, v_close_to_high,
                                   v_volume_ratio)
    /\ v_pc' = "done"
    /\ UNCHANGED <<v_len, v_range_trend, v_close_to_high, v_volume_ratio>>
    /\ UNCHANGED otherThanVcp

NextVcp == DetectVcpPattern

(***************************************************************************)
(* BatchStockAnalyzer._detect_breakout_setup and StockAnalyzer             *)
(* .detect_breakout_setup, which are the same code, by the quantities that *)
(* the five checks compare.                                                *)
(***************************************************************************)
\* the least length of a series that the detector looks at
breakout_min_rows == 60

\* the length from which SMA200 is computed
sma200_rows == 200

\* the last three pullbacks, in percent of the swing high: fewer than three,
\* shrinking by 5% of the first, by less, and not in descending order
PullbackChoices == {<<>>, <<100, 100, 95>>, <<100, 100, 96>>, <<100, 110, 90>>}

BreakoutInputs ==
    {x \in [len : {breakout_min_rows - 1, breakout_min_rows, sma200_rows},
            price_above_sma50 : BOOLEAN,
            sma50_above_sma200 : BOOLEAN,
            rsi : {50, 51},
            pullbacks : PullbackChoices,
            \* recent_vol / prior_vol, in thousandths
            volume_ratio : {899, 900},
            \* today's close or high is above the prior 20-bar high
            above_prior_high : BOOLEAN,
            \* today_vol / vma, in thousandths
            today_volume_ratio : {1300, 1301}] :
        x.len < sma200_rows => ~x.sma50_above_sma200}

\* the five checks, in the order of the code
breakout_checks(x) ==
    [trend_ok |->
         IF x.len >= sma200_rows
         THEN x.price_above_sma50 /\ x.sma50_above_sma200
         ELSE x.price_above_sma50,
     rsi_ok |-> x.rsi > 50,
     shrinking_pullbacks |->
         /\ Len(x.pullbacks) >= 3
         /\ x.pullbacks[1] >= x.pullbacks[2]
         /\ x.pullbacks[2] >= x.pullbacks[3]
         /\ 100 * (x.pullbacks[1] - x.pullbacks[3]) >= 5 * x.pullbacks[1],
     declining_volume |-> x.volume_ratio < 900,
     breakout_high_volume |-> x.above_prior_high /\ x.today_volume_ratio > 1300]

\* mutant: prequalified does not look at qualified
prequalified_without_qualified(checks, qualified) ==
    \A k \in DOMAIN checks \ {"breakout_high_volume"} : checks[k]

\* prequalified = other_checks_ok and not qualified
prequalified_of(checks, qualified) ==
    (\A k \in DOMAIN checks \ {"breakout_high_volume"} : checks[k]) /\ ~qualified

detect_breakout_setup(x) ==
    IF x.len < breakout_min_rows
    THEN [qualified |-> FALSE, strength |-> 0]
    ELSE LET checks == breakout_checks(x)
             qualified == \A k \in DOMAIN checks : checks[k]
         IN  [qualified |-> qualified,
              prequalified |-> prequalified_of(checks, qualified),
              strength |->
                  (IF checks.trend_ok THEN 1 ELSE 0)
                  + (IF checks.rsi_ok THEN 1 ELSE 0)
                  + (IF checks.shrinking_pullbacks THEN 1 ELSE 0)
                  + (IF checks.declining_volume THEN 1 ELSE 0)
                  + (IF checks.breakout_high_volume THEN 2 ELSE 0),
              checks |-> checks]

InitBreakout ==
    /\ bo_in \in BreakoutInputs
    /\ bo_pc = "start"
    /\ bo_out = [idle |-> TRUE]

DetectBreakoutSetup ==
    /\ bo_pc = "start"
    /\ bo_out' = detect_breakout_setup(bo_in)
    /\ bo_pc' = "done"
    /\ UNCHANGED bo_in
    /\ UNCHANGED otherThanBreakout

NextBreakout == DetectBreakoutSetup

(***************************************************************************)
(* BatchStockAnalyzer._detect_enhanced_crossovers and StockAnalyzer        *)
(* .detect_enhanced_crossovers, which are the same code: the loop over the *)
(* rows of recent_data, one row per step.                                  *)
(***************************************************************************)
\* the most rows of recent_data
MaxRecentRows == 5

\* the least number of rows that the detector scans
min_recent_rows == 5

\* the number of crossovers that the detector returns
kept_crossovers == 5

\* how a faster average stands to a slower one in a row
Relations == {"below", "equal", "above"}

Rows == [fast : Relations, slow : Relations, volume_confirm : BOOLEAN]

\* the crossover of one pair of averages between two rows, or "none"
crossover(prev, curr, pair) ==
    IF prev \in {"below", "equal"} /\ curr = "above" THEN <<"BULLISH", pair>>
    ELSE IF prev \in {"above", "equal"} /\ curr = "below" THEN <<"BEARISH", pair>>
    ELSE "none"

\* the crossovers of a row, in the order in which the loop appends them
crossovers_of(prev, curr) ==
    SelectSeq(<<crossover(prev.fast, curr.fast, "10_20"),
                crossover(prev.slow, curr.slow, "20_40")>>,
              LAMBDA c : c # "none")

\* list[-n:]
LastOf(list, n) ==
    IF Len(list) <= n THEN list ELSE SubSeq(list, Len(list) - n + 1, Len(list))

InitCross ==
    /\ x_rows \in (min_recent_rows - 1)..MaxRecentRows
    /\ x_prev \in [fast : Relations, slow : Relations]
    /\ x_i = 1
    /\ x_crossovers = <<>>
    /\ x_volume_confirmed = <<>>
    /\ x_pc = "start"
    /\ x_out = [idle |-> TRUE]

\* fewer than 5 rows: nothing is scanned
TooFewRows ==
    /\ x_pc = "start"
    /\ x_rows < min_recent_rows
    /\ x_out' = [crossovers |-> <<>>, volume_confirmed |-> <<>>, strength |-> 0]
    /\ x_pc' = "done"
    /\ UNCHANGED <<x_rows, x_prev, x_i, x_crossovers, x_volume_confirmed>>
    /\ UNCHANGED otherThanCross

\* one round of the loop over range(1, len(recent_data))
ScanRow ==
    /\ x_pc \in {"start", "loop"}
    /\ x_rows >= min_recent_rows
    /\ x_i < x_rows
    /\ \E curr \in Rows :
          LET found == crossovers_of(x_prev, curr)
          IN  /\ x_crossovers' = x_crossovers \o found
              /\ x_volume_confirmed' =
                     IF curr.volume_confirm THEN x_volume_confirmed \o found
                     ELSE x_volume_confirmed
              /\ x_prev' = [fast |-> curr.fast, slow |-> curr.slow]
    /\ x_i' = x_i + 1
    /\ x_pc' = "loop"
    /\ UNCHANGED <<x_rows, x_out>>
    /\ UNCHANGED otherThanCross

\* the return after the loop
ReturnCrossovers ==
    /\ x_pc = "loop"
    /\ x_i = x_rows
    /\ x_out' = [crossovers |-> LastOf(x_crossovers, kept_crossovers),
                 volume_confirmed |-> LastOf(x_volume_confirmed, kept_crossovers),
                 strength |-> 2 * Len(x_volume_confirmed)]
    /\ x_pc' = "done"
    /\ UNCHANGED <<x_rows, x_prev, x_i, x_crossovers, x_volume_confirmed>>
    /\ UNCHANGED otherThanCross

NextCross ==
    \/ TooFewRows
    \/ ScanRow
    \/ ReturnCrossovers

(***************************************************************************)
(* The two scheduler threads of start_background_schedulers.  Each round   *)
(* of a loop is load_state, run_market or run_etf, save_state; the steps   *)
(* of the two threads interleave freely.                                   *)
(***************************************************************************)
\* the rounds of each loop
MaxRounds == 2

\* the threads, by the key of the state that their run writes:
\* market_last_keys and etf_last_keys
Loops == {"market", "etf"}

\* the sets of signal keys that a run can compute
KeySets == {{}, {"AAPL"}}

\* load_state of a missing or unreadable file: {}
EmptyState == [market |-> {}, etf |-> {}]

\* the file with a whole state in it, and the file emptied by write_text
FileOf(state) == [partial |-> FALSE, state |-> state]
EmptiedFile == [partial |-> TRUE, state |-> EmptyState]

\* no run saved yet, and the keys of a saved run
NoRunSaved == [saved |-> FALSE, keys |-> {}]
SavedRun(keys) == [saved |-> TRUE, keys |-> keys]

InitScheduler ==
    /\ sch_file \in {FileOf(EmptyState), FileOf([market |-> {"AAPL"}, etf |-> {}])}
    /\ sch_state = [t \in Loops |-> EmptyState]
    /\ sch_pc = [t \in Loops |-> "sleep"]
    /\ sch_rounds = [t \in Loops |-> 0]
    /\ sch_written = [t \in Loops |-> NoRunSaved]

\* load_state: json.loads of the file; {} if that raises
LoadState(t) ==
    /\ sch_pc[t] = "sleep"
    /\ sch_rounds[t] < MaxRounds
    /\ sch_rounds' = [sch_rounds EXCEPT ![t] = @ + 1]
    /\ sch_state' = [sch_state EXCEPT
                        ![t] = IF sch_file.partial THEN EmptyState ELSE sch_file.state]
    /\ sch_pc' = [sch_pc EXCEPT ![t] = "loaded"]
    /\ UNCHANGED <<sch_file, sch_written>>
    /\ UNCHANGED otherThanScheduler

\* run_market or run_etf: the keys of this run replace those of the loop in
\* the local state
Run(t) ==
    /\ sch_pc[t] = "loaded"
    /\ \E current_keys \in KeySets :
          sch_state' = [sch_state EXCEPT ![t][t] = current_keys]
    /\ sch_pc' = [sch_pc EXCEPT ![t] = "ran"]
    /\ UNCHANGED <<sch_file, sch_rounds, sch_written>>
    /\ UNCHANGED otherThanScheduler

\* run_market outside the market hours gives the state back as it is
RunSkipped(t) ==
    /\ sch_pc[t] = "loaded"
    /\ t = "market"
    /\ sch_pc' = [sch_pc EXCEPT ![t] = "skipped"]
    /\ UNCHANGED <<sch_file, sch_state, sch_rounds, sch_written>>
    /\ UNCHANGED otherThanScheduler

\* the request or the push of the run raises: the round ends without save_state
RunRaises(t) ==
    /\ sch_pc[t] = "loaded"
    /\ sch_pc' = [sch_pc EXCEPT ![t] = "sleep"]
    /\ UNCHANGED <<sch_file, sch_state, sch_rounds, sch_written>>
    /\ UNCHANGED otherThanScheduler

\* save_state, write_text: the file is opened for writing, which empties it
OpenForWriting(t) ==
    /\ sch_pc[t] \in {"ran", "skipped"}
    /\ sch_file' = EmptiedFile
    /\ sch_pc' = [sch_pc EXCEPT ![t] = IF sch_pc[t] = "ran" THEN "writing"
                                        ELSE "writing_skipped"]
    /\ UNCHANGED <<sch_state, sch_rounds, sch_written>>
    /\ UNCHANGED otherThanScheduler

\* save_state, write_text: the whole local state is written
WriteState(t) ==
    /\ sch_pc[t] \in {"writing", "writing_skipped"}
    /\ sch_file' = FileOf(sch_state[t])
    /\ sch_written' = IF sch_pc[t] = "writing"
                      THEN [sch_written EXCEPT ![t] = SavedRun(sch_state[t][t])]
                      ELSE sch_written
    /\ sch_pc' = [sch_pc EXCEPT ![t] = "sleep"]
    /\ UNCHANGED <<sch_state, sch_rounds>>
    /\ UNCHANGED otherThanScheduler

NextScheduler ==
    \E t \in Loops :
        \/ LoadState(t)
        \/ Run(t)
        \/ RunSkipped(t)
        \/ RunRaises(t)
        \/ OpenForWriting(t)
        \/ WriteState(t)

(***************************************************************************)
(* The price changes of the indicator calculation.  Each lookback tests    *)
(* len(data) against its guard and then reads one bar counted from the     *)
(* end of the series; iloc[-k] exists exactly when the series has k bars.  *)
(***************************************************************************)
\* the longest series
MaxBars == 260

\* StockAnalyzer.fetch_data accepts no series shorter than this
min_accepted_rows == 14

Analyzers == {"batch", "single"}

LookbackLengths == min_accepted_rows..MaxBars

\* the lookbacks in the order of the code: the key, the length that the guard
\* asks for, and the bar from the end that the branch reads
Lookbacks(analyzer) ==
    IF analyzer = "batch"
    THEN << [key |-> "Price_Change_1w_Pct", guard |-> 6, reads |-> 6],
            [key |-> "Price_Change_1m_Pct", guard |-> 22, reads |-> 22],
            [key |-> "Price_Change_6m_Pct", guard |-> 126, reads |-> 127],
            [key |-> "Price_Change_1y_Pct", guard |-> 253, reads |-> 253] >>
    ELSE << [key |-> "Price_Change_1w_Pct", guard |-> 5, reads |-> 6],
            [key |-> "Price_Change_1m_Pct", guard |-> 21, reads |-> 22],
            [key |-> "Price_Change_6m_Pct", guard |-> 126, reads |-> 127],
            [key |-> "Price_Change_1y_Pct", guard |-> 252, reads |-> 253] >>

\* the keys written before the lookbacks, and the pattern keys after them
PriceKeys == {"Current_Price", "Price_Change_Pct", "Price_Change_1d_Pct"}

PatternKeys ==
    {"VCP_Pattern", "RSI_Divergence", "MACD_Divergence", "Enhanced_Crossovers",
     "Breakout_Setup"}

LookbackKeys == {Lookbacks("batch")[n].key : n \in 1..4}

\* data['Close'].iloc[-k] on a series of len bars
iloc_from_end_exists(len, k) == k <= len

\* the lookback whose guard passes and whose bar does not exist
raises_at(l, len) == len >= l.guard /\ ~iloc_from_end_exists(len, l.reads)

\* the first lookback that raises, 0 if none
first_raising(analyzer, len) ==
    LET raising == {n \in 1..4 : raises_at(Lookbacks(analyzer)[n], len)}
    IN  IF raising = {} THEN 0
        ELSE CHOOSE n \in raising : \A m \in raising : n <= m

\* the price changes and what follows them: the keys up to the access that
\* raises, or all of them
price_changes(analyzer, len) ==
    LET stop == first_raising(analyzer, len)
    IN  IF stop = 0
        THEN [raised |-> FALSE,
              keys |-> PriceKeys \cup LookbackKeys \cup PatternKeys]
        ELSE [raised |-> TRUE,
              keys |-> PriceKeys \cup
                       {Lookbacks(analyzer)[n].key : n \in 1..(stop - 1)}]

InitLookback ==
    /\ lb_analyzer \in Analyzers
    /\ lb_len \in LookbackLengths
    /\ lb_pc = "fetched"
    /\ lb_out = [raised |-> FALSE, keys |-> {}]

\* _calculate_indicators of the batch analyzer (the except clause keeps what
\* the dictionary has) and calculate_indicators of StockAnalyzer
CalculatePriceChanges ==
    /\ lb_pc = "fetched"
    /\ lb_out' = price_changes(lb_analyzer, lb_len)
    /\ lb_pc' = "done"
    /\ UNCHANGED <<lb_analyzer, lb_len>>
    /\ UNCHANGED otherThanLookback

NextLookback == CalculatePriceChanges

(***************************************************************************)
(* DataLoader: clear_cache against the entries that fetch_single_ticker    *)
(* writes and reads.  An object key is the pair of the ticker and the file *)
(* name that the f-string joins with "/".                                  *)
(***************************************************************************)
\* the versions of a series that the upstream serves over time
MaxVersion == 2

\* the ticker arguments of the calls
TickerArgs == {"AAPL", "aapl", "MSFT"}

\* ticker.upper().strip()
upper_strip(ticker) == IF ticker = "aapl" THEN "AAPL" ELSE ticker

FileNames == {"data.json", "data.parquet"}

ObjectKeys == TickerArgs \X FileNames

\* no object under a key, and an object with its age against the TTL and the
\* version of the series in it
Absent == [exists |-> FALSE, fresh |-> FALSE, series |-> 0]
ObjectOf(series) == [exists |-> TRUE, fresh |-> TRUE, series |-> series]

\* the key that _save_to_cache writes and _get_from_cache reads
json_key(ticker) == <<ticker, "data.json">>

\* the key that clear_cache deletes
cleared_key(ticker) == <<ticker, "data.parquet">>

\* _get_from_cache: the series of a fresh object, 0 for None
get_from_cache(bucket, ticker) ==
    LET obj == bucket[json_key(ticker)]
    IN  IF obj.exists /\ obj.fresh THEN obj.series ELSE 0

InitCache ==
    /\ cc_bucket = [k \in ObjectKeys |-> Absent]
    /\ cc_upstream = 1
    /\ cc_cleared = {}
    /\ cc_last = [op |-> "none", ticker |-> "", hit |-> FALSE,
                  after_clear |-> FALSE, returned |-> 0]

\* the upstream has new bars
NewBars ==
    /\ cc_upstream < MaxVersion
    /\ cc_upstream' = cc_upstream + 1
    /\ UNCHANGED <<cc_bucket, cc_cleared, cc_last>>
    /\ UNCHANGED otherThanCache

\* an object grows older than cache_ttl_days
Expire(k) ==
    /\ cc_bucket[k].exists /\ cc_bucket[k].fresh
    /\ cc_bucket' = [cc_bucket EXCEPT ![k].fresh = FALSE]
    /\ UNCHANGED <<cc_upstream, cc_cleared, cc_last>>
    /\ UNCHANGED otherThanCache

\* fetch_single_ticker: the cached series on a hit; otherwise the download,
\* saved unless it is empty
FetchTicker(arg, empty) ==
    LET ticker == upper_strip(arg)
        cached == get_from_cache(cc_bucket, ticker)
        hit == cached # 0
        saved == ~hit /\ ~empty
    IN  /\ cc_bucket' = IF saved
                        THEN [cc_bucket EXCEPT
                                 ![json_key(ticker)] = ObjectOf(cc_upstream)]
                        ELSE cc_bucket
        /\ cc_last' = [op |-> "fetch", ticker |-> arg, hit |-> hit,
                       after_clear |-> arg \in cc_cleared,
                       returned |-> IF hit THEN cached
                                    ELSE IF empty THEN 0 ELSE cc_upstream]
        /\ cc_cleared' = cc_cleared \ {arg}
        /\ UNCHANGED cc_upstream
        /\ UNCHANGED otherThanCache

\* clear_cache(ticker): delete_object of the key; True unless the client raises
ClearCache(arg, raises) ==
    /\ cc_bucket' = IF raises THEN cc_bucket
                    ELSE [cc_bucket EXCEPT ![cleared_key(arg)] = Absent]
    /\ cc_cleared' = IF ~raises /\ cc_bucket[json_key(upper_strip(arg))].exists
                     THEN cc_cleared \cup {arg}
                     ELSE cc_cleared
    /\ cc_last' = [op |-> "clear", ticker |-> arg, hit |-> FALSE,
                   after_clear |-> FALSE, returned |-> IF raises THEN 0 ELSE 1]
    /\ UNCHANGED cc_upstream
    /\ UNCHANGED otherThanCache

\* clear_cache(): every object that list_objects_v2 lists is deleted
ClearAllCache ==
    /\ \E k \in ObjectKeys : cc_bucket[k].exists
    /\ cc_bucket' = [k \in ObjectKeys |-> Absent]
    /\ cc_last' = [op |-> "clear_all", ticker |-> "", hit |-> FALSE,
                   after_clear |-> FALSE, returned |-> 1]
    /\ UNCHANGED <<cc_upstream, cc_cleared>>
    /\ UNCHANGED otherThanCache

NextCache ==
    \/ NewBars
    \/ \E k \in ObjectKeys : Expire(k)
    \/ \E arg \in TickerArgs, empty \in BOOLEAN : FetchTicker(arg, empty)
    \/ \E arg \in TickerArgs, raises \in BOOLEAN : ClearCache(arg, raises)
    \/ ClearAllCache

(***************************************************************************)
(* The specifications.  Each runs one part of the program; the variables   *)
(* of the other parts rest.                                                *)
(***************************************************************************)
IdleFetch ==
    /\ input = <<>>
    /\ symbols = <<>>
    /\ period = "6mo"
    /\ batch_size = 1
    /\ data_cache = EmptyMap
    /\ ticker_cache = {}
    /\ session_reset_attempts = 0
    /\ pc = "idle"
    /\ uncached = <<>>
    /\ i = 1
    /\ results = EmptyMap
    /\ retry_count = 0
    /\ delay = 0
    /\ fb_idx = 1
    /\ fb_method = 1
    /\ fb_results = EmptyMap
    /\ batch_symbols = <<>>
    /\ batch_results = EmptyMap
    /\ requests = 0
    /\ outcome = NoOutcome
    /\ fb_log = <<>>

IdleRec ==
    /\ final_score = 0
    /\ current_price = 0
    /\ recommendation = "none"
    /\ target_price = 0
    /\ stop_loss = 0
    /\ rec_pc = "idle"

IdleUniverse ==
    /\ tickers = <<>>
    /\ u_batch_size = 0
    /\ u_start = 1
    /\ u_pending = {}
    /\ u_results = <<>>
    /\ u_failed = {}
    /\ u_recs = <<>>
    /\ u_pc = "idle"

IdleLoader ==
    /\ now = 0
    /\ s3 = NoObject
    /\ l_pc = [t \in Threads |-> "off"]
    /\ l_df = [t \in Threads |-> NoFrame]
    /\ l_ret = NoReturn

IdlePool ==
    /\ p_count = 0
    /\ p_batch_size = 1
    /\ p_max_workers = 1
    /\ p_i = 1
    /\ p_queued = {}
    /\ p_running = {}
    /\ p_finished = {}
    /\ p_results = {}
    /\ p_sleeps = 0
    /\ p_pc = "idle"

IdleAnalyze ==
    /\ a_cached = FALSE
    /\ a_len = 0
    /\ a_columns_missing = FALSE
    /\ a_nan = {}
    /\ a_raise = "none"
    /\ a_pc = "off"
    /\ a_out = [kind |-> "none"]

IdleRerun ==
    /\ r_series = [price |-> 0, score |-> 0, consistency |-> "mid", tie_up |-> FALSE]
    /\ r_utcnow = 0
    /\ r_out = <<[idle |-> TRUE]>>

IdleSignal ==
    /\ Trend_Signal = 0
    /\ Momentum_Signal = 0
    /\ Volatility_Signal = 0
    /\ Volume_Signal_Combined = 0
    /\ Final_Score = 0
    /\ Final_Score_Normalized = 0
    /\ sig_pc = "idle"

IdleFrame ==
    /\ f_in = [idle |-> TRUE]
    /\ f_pc = "idle"
    /\ f_out = [idle |-> TRUE]

IdleBars ==
    /\ b_len = 0
    /\ b_close = 0
    /\ b_ta = TRUE
    /\ b_pc = "idle"
    /\ b_out = [idle |-> TRUE]

IdleConfidence ==
    /\ c_score = 0
    /\ c_rows = 0
    /\ c_std = 0
    /\ c_pc = "idle"
    /\ c_out = "none"

IdleVcp ==
    /\ v_len = 0
    /\ v_range_trend = 0
    /\ v_close_to_high = 0
    /\ v_volume_ratio = 0
    /\ v_pc = "idle"
    /\ v_out = [idle |-> TRUE]

IdleBreakout ==
    /\ bo_in = [idle |-> TRUE]
    /\ bo_pc = "idle"
    /\ bo_out = [idle |-> TRUE]

IdleCross ==
    /\ x_rows = 0
    /\ x_prev = [fast |-> "equal", slow |-> "equal"]
    /\ x_i = 0
    /\ x_crossovers = <<>>
    /\ x_volume_confirmed = <<>>
    /\ x_pc = "idle"
    /\ x_out = [idle |-> TRUE]

IdleScheduler ==
    /\ sch_file = [idle |-> TRUE]
    /\ sch_state = [idle |-> TRUE]
    /\ sch_pc = [idle |-> TRUE]
    /\ sch_rounds = [idle |-> TRUE]
    /\ sch_written = [idle |-> TRUE]

IdleLookback ==
    /\ lb_analyzer = "idle"
    /\ lb_len = 0
    /\ lb_pc = "idle"
    /\ lb_out = [idle |-> TRUE]

IdleCache ==
    /\ cc_bucket = [idle |-> TRUE]
    /\ cc_upstream = 0
    /\ cc_cleared = {}
    /\ cc_last = [op |-> "idle"]

InitOfFetch ==
    InitFetch /\ IdleRec /\ IdleUniverse /\ IdleLoader /\ IdlePool /\
        IdleSignal /\ IdleRerun /\ IdleAnalyze /\ IdleFrame /\ IdleBars /\
        IdleConfidence /\ IdleVcp /\ IdleBreakout /\ IdleCross /\
        IdleScheduler /\ IdleLookback /\ IdleCache

InitOfRec ==
    InitRec /\ IdleFetch /\ IdleUniverse /\ IdleLoader /\ IdlePool /\
        IdleSignal /\ IdleRerun /\ IdleAnalyze /\ IdleFrame /\ IdleBars /\
        IdleConfidence /\ IdleVcp /\ IdleBreakout /\ IdleCross /\
        IdleScheduler /\ IdleLookback /\ IdleCache

InitOfUniverse ==
    InitUniverse /\ IdleFetch /\ IdleRec /\ IdleLoader /\ IdlePool /\
        IdleSignal /\ IdleRerun /\ IdleAnalyze /\ IdleFrame /\ IdleBars /\
        IdleConfidence /\ IdleVcp /\ IdleBreakout /\ IdleCross /\
        IdleScheduler /\ IdleLookback /\ IdleCache

InitOfLoader ==
    InitLoader /\ IdleFetch /\ IdleRec /\ IdleUniverse /\ IdlePool /\
        IdleSignal /\ IdleRerun /\ IdleAnalyze /\ IdleFrame /\ IdleBars /\
        IdleConfidence /\ IdleVcp /\ IdleBreakout /\ IdleCross /\
        IdleScheduler /\ IdleLookback /\ IdleCache

InitOfPool ==
    InitPool /\ IdleFetch /\ IdleRec /\ IdleUniverse /\ IdleLoader /\
        IdleSignal /\ IdleRerun /\ IdleAnalyze /\ IdleFrame /\ IdleBars /\
        IdleConfidence /\ IdleVcp /\ IdleBreakout /\ IdleCross /\
        IdleScheduler /\ IdleLookback /\ IdleCache

InitOfSignal ==
    InitSignal /\ IdleFetch /\ IdleRec /\ IdleUniverse /\ IdleLoader /\
        IdlePool /\ IdleRerun /\ IdleAnalyze /\ IdleFrame /\ IdleBars /\
        IdleConfidence /\ IdleVcp /\ IdleBreakout /\ IdleCross /\
        IdleScheduler /\ IdleLookback /\ IdleCache

InitOfRerun ==
    InitRerun /\ IdleFetch /\ IdleRec /\ IdleUniverse /\ IdleLoader /\
        IdlePool /\ IdleSignal /\ IdleAnalyze /\ IdleFrame /\ IdleBars /\
        IdleConfidence /\ IdleVcp /\ IdleBreakout /\ IdleCross /\
        IdleScheduler /\ IdleLookback /\ IdleCache

InitOfAnalyze ==
    InitAnalyze /\ IdleFetch /\ IdleRec /\ IdleUniverse /\ IdleLoader /\
        IdlePool /\ IdleSignal /\ IdleRerun /\ IdleFrame /\ IdleBars /\
        IdleConfidence /\ IdleVcp /\ IdleBreakout /\ IdleCross /\
        IdleScheduler /\ IdleLookback /\ IdleCache

InitOfFrame ==
    InitFrame /\ IdleFetch /\ IdleRec /\ IdleUniverse /\ IdleLoader /\
        IdlePool /\ IdleSignal /\ IdleRerun /\ IdleAnalyze /\ IdleBars /\
        IdleConfidence /\ IdleVcp /\ IdleBreakout /\ IdleCross /\
        IdleScheduler /\ IdleLookback /\ IdleCache

InitOfBars ==
    InitBars /\ IdleFetch /\ IdleRec /\ IdleUniverse /\ IdleLoader /\
        IdlePool /\ IdleSignal /\ IdleRerun /\ IdleAnalyze /\ IdleFrame /\
        IdleConfidence /\ IdleVcp /\ IdleBreakout /\ IdleCross /\
        IdleScheduler /\ IdleLookback /\ IdleCache

InitOfConfidence ==
    InitConfidence /\ IdleFetch /\ IdleRec /\ IdleUniverse /\ IdleLoader /\
        IdlePool /\ IdleSignal /\ IdleRerun /\ IdleAnalyze /\ IdleFrame /\
        IdleBars /\ IdleVcp /\ IdleBreakout /\ IdleCross /\
        IdleScheduler /\ IdleLookback /\ IdleCache

InitOfVcp ==
    InitVcp /\ IdleFetch /\ IdleRec /\ IdleUniverse /\ IdleLoader /\
        IdlePool /\ IdleSignal /\ IdleRerun /\ IdleAnalyze /\ IdleFrame /\
        IdleBars /\ IdleConfidence /\ IdleBreakout /\ IdleCross /\
        IdleScheduler /\ IdleLookback /\ IdleCache

InitOfBreakout ==
    InitBreakout /\ IdleFetch /\ IdleRec /\ IdleUniverse /\ IdleLoader /\
        IdlePool /\ IdleSignal /\ IdleRerun /\ IdleAnalyze /\ IdleFrame /\
        IdleBars /\ IdleConfidence /\ IdleVcp /\ IdleCross /\
        IdleScheduler /\ IdleLookback /\ IdleCache

InitOfCross ==
    InitCross /\ IdleFetch /\ IdleRec /\ IdleUniverse /\ IdleLoader /\
        IdlePool /\ IdleSignal /\ IdleRerun /\ IdleAnalyze /\ IdleFrame /\
        IdleBars /\ IdleConfidence /\ IdleVcp /\ IdleBreakout /\
        IdleScheduler /\ IdleLookback /\ IdleCache

InitOfScheduler ==
    InitScheduler /\ IdleFetch /\ IdleRec /\ IdleUniverse /\ IdleLoader /\
        IdlePool /\ IdleSignal /\ IdleRerun /\ IdleAnalyze /\ IdleFrame /\
        IdleBars /\ IdleConfidence /\ IdleVcp /\ IdleBreakout /\
        IdleCross /\ IdleLookback /\ IdleCache

InitOfLookback ==
    InitLookback /\ IdleFetch /\ IdleRec /\ IdleUniverse /\ IdleLoader /\
        IdlePool /\ IdleSignal /\ IdleRerun /\ IdleAnalyze /\ IdleFrame /\
        IdleBars /\ IdleConfidence /\ IdleVcp /\ IdleBreakout /\
        IdleCross /\ IdleScheduler /\ IdleCache

InitOfCache ==
    InitCache /\ IdleFetch /\ IdleRec /\ IdleUniverse /\ IdleLoader /\
        IdlePool /\ IdleSignal /\ IdleRerun /\ IdleAnalyze /\ IdleFrame /\
        IdleBars /\ IdleConfidence /\ IdleVcp /\ IdleBreakout /\
        IdleCross /\ IdleScheduler /\ IdleLookback

SpecFetch == InitOfFetch /\ [][NextFetch]_vars

SpecRec == InitOfRec /\ [][NextRec]_vars

SpecUniverse == InitOfUniverse /\ [][NextUniverse]_vars

SpecLoader == InitOfLoader /\ [][NextLoader]_vars

SpecPool == InitOfPool /\ [][NextPool]_vars

SpecSignal == InitOfSignal /\ [][NextSignal]_vars

SpecRerun == InitOfRerun /\ [][NextRerun]_vars

SpecAnalyze == InitOfAnalyze /\ [][NextAnalyze]_vars

SpecFrame == InitOfFrame /\ [][NextFrame]_vars

SpecBars == InitOfBars /\ [][NextBars]_vars

SpecConfidence == InitOfConfidence /\ [][NextConfidence]_vars

SpecVcp == InitOfVcp /\ [][NextVcp]_vars

SpecBreakout == InitOfBreakout /\ [][NextBreakout]_vars

SpecCross == InitOfCross /\ [][NextCross]_vars

SpecScheduler == InitOfScheduler /\ [][NextScheduler]_vars

SpecLookback == InitOfLookback /\ [][NextLookback]_vars

SpecCache == InitOfCache /\ [][NextCache]_vars

(***************************************************************************)
(* Properties of BatchStockAnalyzer, checked under SpecFetch.              *)
(***************************************************************************)
\* _fetch_single_batch has returned for batch_symbols, and the records of
\* its requests are still those of that batch
BatchComplete ==
    /\ requests > 0
    /\ pc = "done" \/ (pc = "batch" /\ retry_count = 0)

Last(q) == q[Len(q)]

\* the step issues a batch download request that ends as kind k
RequestStep(k) ==
    /\ pc = "batch"
    /\ requests' = retry_count + 1
    /\ outcome'.kind = k

\* C2: when fetch_batch_data returns, the key set of its result is exactly
\* the set of the normalised, non-blank input symbols: every symbol has one
\* entry, none is dropped and none is added.
C2_OneEntryPerSymbol ==
    pc = "done" =>
        DOMAIN results = {Strip(UpperStr(x)) : x \in Range(input)} \ {<<>>}

\* a later call returns a symbol cached by an earlier call next to one that
\* fails again
C2_Witness ==
    /\ pc = "done"
    /\ Len(uncached) = 1
    /\ Len(symbols) = 2
    /\ \E s \in DOMAIN results : results[s] /\ s \notin Range(uncached)
    /\ \E s \in DOMAIN results : ~results[s]

\* C4: a batch takes at most 1 + max_retries download requests, whatever
\* the mix of rate-limit and authentication errors, the fallback makes at
\* most 3 requests per symbol of the batch, and a batch that has returned
\* has a result for each of its symbols.
C4_BoundedRequests ==
    /\ requests <= 1 + max_retries
    /\ retry_count <= max_retries
    /\ \A k \in DOMAIN fb_log : Len(fb_log[k]) <= 3
    /\ BatchComplete => DOMAIN batch_results = Range(batch_symbols)

\* four requests, of which the last ended in the only authentication error
\* so far and the retries before it followed rate-limit errors, then three
\* requests for a symbol
C4_Witness ==
    /\ BatchComplete
    /\ requests = 1 + max_retries
    /\ outcome = [kind |-> "auth", reset |-> "ok"]
    /\ session_reset_attempts = 1
    /\ \E k \in DOMAIN fb_log : Len(fb_log[k]) = 3

\* C5: a rate-limit error is answered by a retry of the same batch after a
\* backoff delay while fewer than 3 retries were made, and beyond that by
\* marking every symbol of the batch failed.
C5_RateLimitRetry ==
    [][RequestStep("rate") =>
          IF retry_count < max_retries
          THEN /\ pc' = "batch"
               /\ retry_count' = retry_count + 1
               /\ i' = i
               /\ batch_symbols' = Batch
               /\ delay' >= base_delay * Pow2(retry_count)
               /\ results' = results
          ELSE /\ batch_results' = [s \in Range(Batch) |-> FALSE]
               /\ \A s \in Range(Batch) : ~results'[s]
               /\ retry_count' = 0]_vars

\* no session was ever reset, so that every retry followed a rate-limit
\* error: the error persisted through every retry and the batch is marked
\* failed
C5_Witness ==
    /\ BatchComplete
    /\ requests = 1 + max_retries
    /\ outcome.kind = "rate"
    /\ session_reset_attempts = 0
    /\ Len(batch_symbols) = 2
    /\ \A s \in Range(batch_symbols) : ~batch_results[s]

\* the batch has returned after its initial request and 3 retries, the last
\* of which ended in a rate-limit error
RateLimitedToCeiling ==
    /\ BatchComplete
    /\ requests = 1 + max_retries
    /\ outcome.kind = "rate"

\* the fallback ran once for each symbol of the returned batch
FallbackOncePerSymbol ==
    /\ Len(fb_log) = Len(batch_symbols)
    /\ \A k \in DOMAIN fb_log : fb_log[k] # <<>>

C7_Original ==
    [][RequestStep("auth") =>
          IF session_reset_attempts < max_session_resets
          THEN \/ /\ outcome'.reset = "ok"
                  /\ session_reset_attempts' = session_reset_attempts + 1
                  /\ pc' = "batch"
                  /\ retry_count' = retry_count + 1
               \/ /\ outcome'.reset = "failed"
                  /\ pc' = "fallback"
          ELSE /\ outcome'.reset = "none"
               /\ pc' = "fallback"]_vars

\* C7, amended: an authentication error is answered by a session reset
\* while fewer than 3 resets were made; after a successful reset the batch
\* is retried only if fewer than 3 retries (of either kind) were made for
\* it, otherwise the fallback runs; the fallback also runs when the reset
\* fails or the resets are used up.
C7_AuthResetRetry ==
    [][RequestStep("auth") =>
          /\ session_reset_attempts' <= max_session_resets
          /\ IF session_reset_attempts < max_session_resets
             THEN \/ /\ outcome'.reset = "ok"
                     /\ session_reset_attempts' = session_reset_attempts + 1
                     /\ IF retry_count < max_retries
                        THEN /\ pc' = "batch"
                             /\ retry_count' = retry_count + 1
                             /\ i' = i
                        ELSE /\ pc' = "fallback"
                             /\ Len(fb_log') = Len(Batch)
                  \/ /\ outcome'.reset = "failed"
                     /\ session_reset_attempts' = session_reset_attempts
                     /\ pc' = "fallback"
             ELSE /\ outcome'.reset = "none"
                  /\ session_reset_attempts' = session_reset_attempts
                  /\ pc' = "fallback"
                  /\ Len(fb_log') = Len(Batch)]_vars

\* the first reset of the session comes after the third retry, each of them
\* made for a rate-limit error, and is followed by the fallback
C7_Witness ==
    /\ pc = "fallback"
    /\ requests = 1 + max_retries
    /\ outcome = [kind |-> "auth", reset |-> "ok"]
    /\ session_reset_attempts = 1
    /\ fb_idx = 1 /\ fb_method = 1

\* C8 as stated: any other error sends the batch to the fallback at once.
C8_Original ==
    [][RequestStep("other") => pc' = "fallback" /\ Len(fb_log') = Len(Batch)]_vars

\* C8, amended: on an error that is neither a rate-limit nor an
\* authentication error the fetcher neither retries nor falls back: every
\* symbol of the batch is marked failed at once.
C8_OtherErrorFails ==
    [][RequestStep("other") =>
          /\ pc' # "fallback"
          /\ fb_log' = <<>>
          /\ batch_results' = [s \in Range(Batch) |-> FALSE]
          /\ \A s \in Range(Batch) : ~results'[s]
          /\ data_cache' = data_cache
          /\ retry_count' = 0]_vars

C8_Witness ==
    /\ BatchComplete
    /\ requests = 1
    /\ outcome.kind = "other"
    /\ Len(batch_symbols) = 2
    /\ \A s \in Range(batch_symbols) : ~batch_results[s]

\* the fallback is through with position k of the batch
FallbackFinished(k) == pc # "fallback" \/ k < fb_idx

\* C9 as stated: the fallback tries, per symbol and in this order, the
\* standard request at the requested period, the alternate request at the
\* requested period, and a request for a period shorter than the requested
\* one unless that one is already short; a method is tried only after the
\* earlier ones failed, and a symbol fails only after all of them failed.
C9_FallbackOrder ==
    \A k \in DOMAIN fb_log :
        LET L == fb_log[k]
        IN  /\ \A j \in DOMAIN L :
                /\ L[j].method = j
                /\ j > 1 => ~L[j - 1].ok
                /\ j < 3 => L[j].period = period
                /\ j = 3 => /\ Months(L[j].period) < Months(period)
                            /\ Months(period) > Months(shorter_period)
            /\ FallbackFinished(k) /\ ~Last(L).ok =>
                    Len(L) = IF Months(period) > Months(shorter_period) THEN 3 ELSE 2

\* the series passes the checks of the fetcher
Acceptable(d) ==
    ~Empty(d) /\ d.bars >= MinBars /\ RequiredColumns \subseteq d.cols

\* C10 as stated: on every path a series is cached, and its symbol marked
\* successful, only if it is non-empty, has at least 14 bars and has all
\* required columns.
C10_OnlyValidCached ==
    /\ \A s \in DOMAIN data_cache : Acceptable(data_cache[s])
    /\ BatchComplete =>
          \A s \in DOMAIN batch_results :
              batch_results[s] => s \in DOMAIN data_cache /\ Acceptable(data_cache[s])

\* C12 as stated, for BatchStockAnalyzer: no series with an inconsistent bar
\* is stored in data_cache, from where analyze_symbol takes the series it
\* computes the indicators of, and no symbol with such a series is marked
\* successful.
C12_NoBadBarsCached ==
    \A s \in DOMAIN data_cache : data_cache[s].bad = "none"

\* C11: a symbol that is marked successful, in the results of the fallback,
\* of a batch or of fetch_batch_data, has a non-empty series in data_cache,
\* in every state: the series is stored no later than the mark is set.
C11_SuccessIsCached ==
    \A r \in {results, batch_results, fb_results} :
        \A s \in DOMAIN r : r[s] => s \in DOMAIN data_cache /\ ~Empty(data_cache[s])

\* the call returns two successes: the first symbol from the single-symbol
\* batch path (it has no ticker object), the second from the fallback
C11_Witness ==
    /\ pc = "done"
    /\ Len(uncached) = 2
    /\ uncached[1] # uncached[2]
    /\ \A s \in DOMAIN results : results[s]
    /\ uncached[1] \notin ticker_cache
    /\ batch_symbols = <<uncached[2]>>
    /\ fb_log # <<>> /\ Last(fb_log[1]).ok

(***************************************************************************)
(* Properties of RecommendationEngine, checked under SpecRec.              *)
(***************************************************************************)
\* C1 as stated: for every label and every positive price the distance of
\* the target price from the price exceeds that of the stop-loss, both
\* rounded to cents.
C1_RewardExceedsRisk ==
    rec_pc = "done" /\ current_price > 0 =>
        Abs(target_price - current_price) > Abs(stop_loss - current_price)

C3_OneEntryPerTicker ==
    u_pc = "done" =>
        /\ Len(u_recs) = Len(tickers)
        /\ {u_recs[k].symbol : k \in {j \in DOMAIN u_recs : u_recs[j].error}} = u_failed
        /\ Cardinality({k \in DOMAIN u_recs : ~u_recs[k].error})
              = Len(tickers) - Cardinality(u_failed)

(***************************************************************************)
(* Properties of DataLoader's cache, checked under SpecLoader.             *)
(***************************************************************************)
\* C13 as stated: a lookup that finds the object older than the TTL of one
\* day (now - LastModified > 1 day) is a miss and goes on to the download.
C13_StaleIsMiss ==
    [][\A t \in Threads :
          l_pc[t] = "head" /\ l_pc'[t] # "head" /\ s3.exists
              /\ now - s3.lm > cache_ttl_days * DayUnits
          => l_pc'[t] = "download"]_vars

\* columns, index and data of the body come from one frame, which a thread
\* downloaded
Complete(body) ==
    /\ body.columns = body.index
    /\ body.index = body.data
    /\ body.data.by \in Threads

\* C14: under every interleaving of the threads the object is absent or
\* holds one complete frame, a cache hit returns one complete frame, and a
\* call that downloaded returns the frame it downloaded itself.
C14_WholeEntries ==
    /\ s3.exists => Complete(s3.body)
    /\ l_ret.kind = "hit" => Complete(l_ret.body)
    /\ l_ret.kind = "fetched" => l_ret.df.by \in Threads

\* no time has passed: two threads missed the cache and both downloaded; the
\* frame of one is in the cache and is returned by a hit while the other
\* thread has its duplicate still to save
C14_Witness ==
    /\ now = 0
    /\ l_ret.kind = "hit"
    /\ \E u \in Threads :
          /\ l_pc[u] = "save"
          /\ l_ret.body.data.by # u

(***************************************************************************)
(* Properties of DataLoader.fetch_batch, checked under SpecPool.           *)
(***************************************************************************)
\* C15: at every moment at most max_workers fetches are running, every
\* fetch that is submitted or running belongs to the current batch, and
\* while a fetch of a batch is submitted or running every fetch of the
\* earlier batches has completed and one delay was slept per earlier batch.
C15_OneBatchInFlight ==
    /\ Cardinality(p_running) <= p_max_workers
    /\ p_queued \cup p_running \subseteq PoolBatch
    /\ p_queued \cup p_running # {} =>
          /\ \A k \in 1..p_count : k < p_i => k \in p_finished
          /\ p_sleeps * p_batch_size = p_i - 1

\* in the second batch every worker is busy and a fetch waits for one
C15_Witness ==
    /\ p_i > 1
    /\ Cardinality(p_running) = p_max_workers
    /\ p_max_workers > 1
    /\ p_queued # {}

(***************************************************************************)
(* Properties of SignalEngine, checked under SpecSignal.                   *)
(***************************************************************************)
\* C16: whatever the individual signals are, present or absent, and whether
\* or not a step raised, the final score lies in [-1, 1].
C16_FinalScoreInRange ==
    /\ Final_Score_Normalized >= -100
    /\ Final_Score_Normalized <= 100

\* the most bearish signals there are: every signal at its lowest value
C16_Witness ==
    /\ sig_pc = "done"
    /\ Trend_Signal = -8
    /\ Momentum_Signal = -10
    /\ Volatility_Signal = -7
    /\ Volume_Signal_Combined = -10
    /\ Final_Score_Normalized = -86

RECURSIVE SumOver(_, _)
SumOver(w, D) ==
    IF D = {} THEN 0
    ELSE LET k == CHOOSE x \in D : TRUE
         IN  w[k] + SumOver(w, D \ {k})

\* C18: in a constructed SignalEngine the weights of each of the four
\* categories, and the weights of the categories, which are 0.4, 0.3, 0.2
\* and 0.1, sum to 1.
C18_WeightsSumToOne ==
    sig_pc # "idle" =>
        /\ \A w \in {trend_weights, momentum_weights, volatility_weights,
                      volume_weights, indicator_weights} :
              SumOver(w, DOMAIN w) = 10
        /\ indicator_weights =
              [trend |-> 4, momentum |-> 3, volatility |-> 2, volume |-> 1]

\* every signal at its highest value: every category signal is 1 and so is
\* the score before it is clamped
C18_Witness ==
    /\ sig_pc = "done"
    /\ Trend_Signal = 10
    /\ Momentum_Signal = 10
    /\ Volatility_Signal = 10
    /\ Volume_Signal_Combined = 10
    /\ Final_Score = 100

(***************************************************************************)
(* Properties of the repeated analysis, checked under SpecRerun.           *)
(***************************************************************************)
\* C19 as stated: the recommendation of a second run on the unchanged
\* cached series is equal in every field to that of the first run.
C19_RerunIdentical ==
    Len(r_out) >= 2 => r_out[2] = r_out[1]

(***************************************************************************)
(* Properties of analyze_symbol, checked under SpecAnalyze.                *)
(***************************************************************************)
\* C20 as stated: for a series shorter than the window of an indicator, the
\* analysis reports the indicator as None both in the indicator set and in
\* the summary, never as 0.
C20_ShortSeriesAbsent ==
    a_out.kind = "analysis" =>
        \A key \in DOMAIN SummaryKeys :
            a_len < LengthGuard(CallOf(SummaryKeys[key]))
            => /\ a_out.indicators[SummaryKeys[key]] = "None"
               /\ a_out.summary[key] = "None"

(***************************************************************************)
(* Properties of SignalEngine.generate_signals on a frame, checked under   *)
(* SpecFrame.                                                              *)
(***************************************************************************)
\* the indicators that have a computed value with the signal 0, with the
\* class of that value
NeutralClass == [ADX |-> "weak", RSI |-> "neutral", Stoch |-> "neutral",
                 ROC |-> "neutral", CCI |-> "neutral"]

CategoryOf(k) == IF k = "ADX" THEN "Trend_Signal" ELSE "Momentum_Signal"

MembersOf(k) ==
    IF k = "ADX" THEN {"EMA", "SMA", "MACD", "ADX"} ELSE {"RSI", "Stoch", "ROC", "CCI"}

\* C21 as stated: an absent indicator is told apart from a computed neutral
\* one.  When another indicator of the category gives a signal, the category
\* score of the frame differs from that of the same frame with the absent
\* indicator present and neutral.
C21_AbsentDistinguished ==
    f_pc = "done" =>
        \A k \in DOMAIN NeutralClass :
            /\ f_in[k] = "absent"
            /\ \E o \in MembersOf(k) : f_out.signals[o] # 0
            /\ ~(f_in.MACD # "absent" /\ ~f_in.MACD_Histogram /\ k = "ADX")
            => generate_signals_for([f_in EXCEPT ![k] = NeutralClass[k]],
                                    <<f_out.Volatility_Signal,
                                      f_out.Volume_Signal_Combined>>)[CategoryOf(k)]
                   # f_out[CategoryOf(k)]

\* C23 as stated: the signal of EMA_12 against EMA_26, and of MACD against
\* its signal line, is +1 when the first value is greater, -1 when it is
\* smaller and 0 when the two are equal.
C23_CrossoverSignals ==
    f_pc = "done" =>
        \A k \in {"EMA", "MACD"} :
            /\ f_in[k] = "above" => f_out.signals[k] = 1
            /\ f_in[k] = "below" => f_out.signals[k] = -1
            /\ f_in[k] = "equal" => f_out.signals[k] = 0

(***************************************************************************)
(* Properties of analyze_single_ticker by the length of the series,        *)
(* checked under SpecBars.                                                 *)
(***************************************************************************)
\* C22 as stated: for a series of 1 to 10 bars, too short for any indicator,
\* the analysis has no indicator, the final score 0 and the label Hold.
C22_ShortSeriesNeutral ==
    b_pc = "done" /\ b_len \in 1..10 =>
        /\ b_out.indicators = {}
        /\ b_out.score = 0
        /\ b_out.recommendation = "Hold"

(***************************************************************************)
(* Properties of _calculate_confidence, checked under SpecConfidence.      *)
(***************************************************************************)
\* the level that |score| alone gives, with the thresholds 0.4 and 0.7
LevelOfMagnitude(score) ==
    IF score >= 700 \/ score <= -700 THEN "High"
    ELSE IF score >= 400 \/ score <= -400 THEN "Medium"
    ELSE "Low"

\* C24: the confidence is Low, Medium or High.  It is the level of |score|,
\* except that with 10 rows or more a std of the last 10 scores below 0.2
\* raises Medium to High and a std above 0.6 lowers High to Medium; so a
\* score with |score| < 0.4 is always Low, and fewer than 10 rows leave the
\* level of |score|.
C24_ConfidenceLevels ==
    c_pc = "done" =>
        /\ c_out \in {"Low", "Medium", "High"}
        /\ c_out =
              IF c_rows >= 10 /\ c_std < 200 /\ LevelOfMagnitude(c_score) = "Medium"
              THEN "High"
              ELSE IF c_rows >= 10 /\ c_std > 600
                      /\ LevelOfMagnitude(c_score) = "High"
              THEN "Medium"
              ELSE LevelOfMagnitude(c_score)
        /\ (c_score \in -399..399 => c_out = "Low")
        /\ (c_rows < 10 => c_out = LevelOfMagnitude(c_score))

\* a Medium score that the calm last 10 scores raise to High
C24_Witness ==
    /\ c_pc = "done"
    /\ c_rows = 10
    /\ c_std = 199
    /\ c_score = -699
    /\ c_out = "High"

(***************************************************************************)
(* Properties of the contraction detector, checked under SpecVcp.          *)
(***************************************************************************)
\* the conditions (a), (b), (c) that hold for the series
VcpConditionsMet ==
    {x \in {"a", "b", "c"} :
        \/ x = "a" /\ v_range_trend < -10
        \/ x = "b" /\ v_close_to_high >= 950
        \/ x = "c" /\ v_volume_ratio < 800}

\* C25 as stated: the detector says strong exactly when all three conditions
\* hold, weak when some but not all of them hold, and none when none holds.
C25_VcpByConditions ==
    v_pc = "done" /\ v_len >= 50 =>
        /\ v_out.pattern = "STRONG_VCP" <=> VcpConditionsMet = {"a", "b", "c"}
        /\ v_out.pattern = "WEAK_VCP" <=>
               VcpConditionsMet \notin {{}, {"a", "b", "c"}}
        /\ v_out.pattern = "NO_VCP" <=> VcpConditionsMet = {}

(***************************************************************************)
(* Properties of the breakout-setup detector, checked under SpecBreakout.  *)
(***************************************************************************)
\* the check k was made and is true
CheckTrue(k) == "checks" \in DOMAIN bo_out /\ bo_out.checks[k]

FourChecks == {"trend_ok", "rsi_ok", "shrinking_pullbacks", "declining_volume"}

ReportsPrequalified == "prequalified" \in DOMAIN bo_out /\ bo_out.prequalified

\* C26: the detector reports qualified exactly when all five checks are
\* true, and prequalified exactly when the four checks other than the
\* breakout are true and the breakout check is false; never both.
C26_QualifiedAndPrequalified ==
    bo_pc = "done" =>
        /\ bo_out.qualified <=>
               \A k \in FourChecks \cup {"breakout_high_volume"} : CheckTrue(k)
        /\ ReportsPrequalified <=>
               /\ \A k \in FourChecks : CheckTrue(k)
               /\ ~CheckTrue("breakout_high_volume")
        /\ ~(bo_out.qualified /\ ReportsPrequalified)

\* a series of 200 bars that passes all five checks
C26_Witness ==
    /\ bo_pc = "done"
    /\ bo_in.len = 200
    /\ bo_out.qualified
    /\ bo_out.strength = 6
    /\ ~ReportsPrequalified

(***************************************************************************)
(* Properties of the confirmed-crossover detector, checked under SpecCross.*)
(***************************************************************************)
Entries(list) == {list[n] : n \in DOMAIN list}

\* C27 as stated: every entry of the returned volume_confirmed also occurs
\* in the returned crossovers.
C27_ConfirmedAmongCrossovers ==
    x_pc = "done" => Entries(x_out.volume_confirmed) \subseteq Entries(x_out.crossovers)

(***************************************************************************)
(* Properties of the scheduler threads, checked under SpecScheduler.       *)
(***************************************************************************)
\* C28 as stated: once both threads have saved a run and rest, the file
\* holds the market keys of the latest market run and the ETF keys of the
\* latest ETF run.
C28_NoLostUpdate ==
    (\A t \in Loops : sch_pc[t] = "sleep" /\ sch_written[t].saved)
    => \A t \in Loops : sch_file.state[t] = sch_written[t].keys

(***************************************************************************)
(* Properties of the price changes, checked under SpecLookback.            *)
(***************************************************************************)
\* C29 as stated: for every accepted length of 14 bars or more, no lookback
\* reads a bar that the series does not have, and the calculation gives the
\* full indicator set.
C29_LookbacksInRange ==
    lb_pc = "done" /\ lb_len >= min_accepted_rows =>
        /\ ~lb_out.raised
        /\ lb_out.keys = PriceKeys \cup LookbackKeys \cup PatternKeys

(***************************************************************************)
(* Properties of clear_cache, checked under SpecCache.                     *)
(***************************************************************************)
\* C30 as stated: the first fetch_single_ticker of a ticker after its
\* clear_cache returned True, with an entry saved before, is a cache miss.
C30_ClearedThenMiss ==
    cc_last.op = "fetch" /\ cc_last.after_clear => ~cc_last.hit

====
